---- MODULE Spec2Model ----
(***************************************************************************)
(* Verification model of the dreame-mower cloud protocol core:             *)
(*   - DreameMowerCloudBase  (cloud/cloud_base.py): login, request,        *)
(*     failure counter, async worker queue;                                *)
(*   - DreameMowerCloudDevice (cloud/cloud_device.py): MQTT connection     *)
(*     state machine, reconnect timer, callbacks.                          *)
(* Each handler of the source is one atomic action.  The HTTP server, the  *)
(* MQTT transport and the wall clock are the environment: their answers    *)
(* are drawn from small sets.                                              *)
(***************************************************************************)
EXTENDS Integers, Sequences, FiniteSets, TLC

----------------------------------------------------------------------------
(* Bounds of the model *)

\* the clock advances at most this many units past StartTime
MaxTicks == 2
\* first reading of the wall clock
StartTime == 1000
\* how many times in a row the login server answers "refresh token invalid"
MaxRefreshRejects == 2
\* number of calls submitted to the async queue
MaxSubmits == 3
\* number of callback triples ever registered through connect()
MaxConnects == 2
\* threads of the platform that issue commands
MaxCallers == 2
\* commands issued at most
MaxCommands == 3
\* reconnect timers waiting at the same time
MaxTimers == 2

(* Program constants *)

\* cloud_base.py:121   expiry = now + TTL - 120
KeyExpireMargin == 120
\* cloud_base.py:290   if self._fail_count == 5
MaxFailCount == 5
\* cloud_base.py:165   retry_count=2
DefaultRetryCount == 2
\* cloud_device.py:397   vendor code "device unreachable"
DeviceOfflineCode == 80001
\* cloud_device.py line 15
RECONNECT_DELAY_SECONDS == 10

\* the refresh token the server hands out (its identity is never compared)
RefreshToken == 1
\* server-reported TTLs: the stored expiry is 1 unit after the login
TTLs == {KeyExpireMargin + 1}
\* HTTP statuses of an exchange that produced a response
Statuses == {200, 204, 401, 500}
\* the retry_count the callers inside the repository pass
DefaultRetries == {DefaultRetryCount}
\* retry_count arguments a caller can pass; -1 stands for None and for any
\* negative number (line 221 treats them alike)
RetryCounts == {-1, 0, 1, DefaultRetryCount}

VARIABLES
    \* ---- DreameMowerCloudBase ----
    cloud_base,     \* [key, secondary_key, key_expire, logged_in, http_api_connected, fail_count, id]
    thread,         \* self._thread: "none" (None) | "waiting" | "busy" | "exited"
    queue,          \* self._queue: sequence of items; <<>> is the poison item
    current,        \* the item the worker dequeued and is executing, or <<>>
    \* ---- DreameMowerCloudDevice ----
    mqtt,           \* [client, connected, connecting, timer, client_key, callbacks, device_reachable]
    \* ---- environment ----
    now,            \* time.time()
    transport,      \* [clients, inflight]: transports created so far; a connect awaits its CONNACK
    \* ---- observation of the last action (history) ----
    last_op,        \* name of the last handler that ran
    call_log,       \* what the last connect()/request() did
    consec_fails,   \* consecutive calls that returned None with no login in between
    worker_log,     \* [submitted, delivered, starts, exit_cause]
    chan_log,       \* [invoked, attempt, steps, gens, dead_gen, rc, relogin, subscribed]
    cmd,            \* [pending, issued, log]: the send() calls under way and made
    handler,        \* [due, at, client, connected]: the thread of the reconnect timer
    auth,           \* [at, ttl, stored, seen, reader]: a connect() between its stores, and a reader
    decoder         \* [dnd_time, scheduling, property_1_1, mission, task_status_code,
                    \*  source, payload, before, events, ok]: the property handlers

workerVars == <<thread, queue, current, worker_log>>
chanVars   == <<mqtt, transport, chan_log>>
vars == <<cloud_base, thread, queue, current, mqtt, now, transport,
          last_op, call_log, consec_fails, worker_log, chan_log, cmd, handler,
          auth, decoder>>

----------------------------------------------------------------------------
(* DreameMowerCloudBase: state *)

\* line 68: the first request id, random.randint(1, 100)
FirstId == 1

\* __init__: nothing stored, not logged in.  0 stands for None.
BaseInit ==
    [key |-> 0, secondary_key |-> 0, key_expire |-> 0,
     logged_in |-> FALSE, http_api_connected |-> FALSE, fail_count |-> 0,
     id |-> FirstId]

\* the public `connected` property
Connected(b) == b.logged_in /\ b.http_api_connected

(* Login responses.  `rejects` leading answers are a non-200 whose           *)
(* error_description mentions the refresh token; then comes the final one:   *)
(*   ok            200 with token, refresh token and TTL                      *)
(*   token_no_ttl  200 with token and refresh token but no TTL                *)
(*   failed        200 without token, a non-200 with another error, or the    *)
(*                 POST raises: all three store nothing                       *)
LoginFinals ==
    [kind : {"ok"}, ttl : TTLs]
    \cup [kind : {"token_no_ttl", "failed"}, ttl : {0}]

\* the token of a login response: the server never re-issues the stored one
NextToken(b) == IF b.key = 1 THEN 2 ELSE 1

LoginInputs ==
    {[rejects |-> n, final |-> f] : n \in 0..MaxRefreshRejects, f \in LoginFinals}

NoLogin == [rejects |-> 0, final |-> [kind |-> "none", ttl |-> 0]]

\* the stored expiry: server TTL minus the safety margin
KeyExpire(t, ttl) == t + ttl - KeyExpireMargin

\* lines 115-126: what the final login response stores
LoginStore(b, t, f) ==
    CASE f.kind = "ok" ->
            [b EXCEPT !.key = NextToken(b), !.secondary_key = RefreshToken,
                      !.key_expire = KeyExpire(t, f.ttl), !.logged_in = TRUE]
      [] f.kind = "token_no_ttl" ->
            \* time.time() + None raises after key and secondary_key were stored
            [b EXCEPT !.key = NextToken(b), !.secondary_key = RefreshToken]
      [] OTHER -> b

\* A connect() on one thread between its stores of lines 118-119 and of lines
\* 120-121, and what another thread read of the session meanwhile:
\*   at      "key_stored" between the two stores, else "none"
\*   ttl     the TTL of the login response being stored
\*   stored  the <<token, expiry>> pairs the session held between logins
\*   seen    the <<token, expiry>> a reader read last, and the domain it runs in
AuthInit ==
    [at |-> "none", ttl |-> 0, stored |-> {<<0, 0>>}, seen |-> <<0, 0>>,
     reader |-> "none"]

\* connect(): returns [base, logins] -- the session afterwards and the number
\* of login requests issued.  A "refresh token" error clears the refresh
\* token and calls connect() again (line 130-132), whatever login was used.
RECURSIVE connect(_, _, _)
connect(b, t, login) ==
    LET b0 == [b EXCEPT !.logged_in = FALSE]
    IN  IF login.rejects > 0
        THEN LET r == connect([b0 EXCEPT !.secondary_key = 0], t,
                              [login EXCEPT !.rejects = @ - 1])
             IN  [base |-> r.base, logins |-> r.logins + 1]
        ELSE LET b1 == LoginStore(b0, t, login.final)
                 b2 == IF b1.logged_in
                       THEN [b1 EXCEPT !.fail_count = 0, !.http_api_connected = TRUE]
                       ELSE b1
             IN  [base |-> b2, logins |-> 1]

----------------------------------------------------------------------------
(* DreameMowerCloudBase.request *)

\* (mutant) the key counts as expired already at the stored expiry
ExpiredAtExpiry(b, t) == b.key_expire # 0 /\ t >= b.key_expire

\* line 226: lazy re-authentication test
Expired(b, t) == b.key_expire # 0 /\ t > b.key_expire

\* (mutant) a negative retry_count is used as it is
EffectiveRetriesUnclamped(retry_count) == retry_count

\* line 221-222
EffectiveRetries(retry_count) == IF retry_count <= 0 THEN 0 ELSE retry_count

(* A call: its arguments and the environment's answers.                     *)
(*   excs        the first `excs` HTTP attempts raise                        *)
(*   status,json the response of the first attempt that does not raise      *)
(*   login_exp   the login server's answer to every expiry re-login          *)
(*   login_401   the login server's answer to the re-login after a 401      *)
\* the single element of a singleton set; { F(x) : x \in {e} } computes e once
TheOne(S) == CHOOSE x \in S : TRUE

\* lines 226-227: the lazy re-login at the start of an attempt
ExpiryRelogin(acc, t, call) ==
    IF Expired(acc.base, t)
    THEN TheOne({ [acc EXCEPT !.base = c.base, !.reauth_expiry = @ + 1,
                              !.logins = @ + c.logins,
                              !.login_kind = call.login_exp.final.kind]
                  : c \in {connect(acc.base, t, call.login_exp)} })
    ELSE acc

\* lines 223-264: the retry loop
RECURSIVE AttemptLoop(_, _, _, _)
AttemptLoop(acc, t, call, rc) ==
    IF acc.retries >= rc + 1 THEN acc
    ELSE TheOne({ IF a1.retries < call.excs
                  THEN AttemptLoop([a1 EXCEPT !.retries = @ + 1], t, call, rc)
                  ELSE [a1 EXCEPT !.responded = TRUE]
                  : a1 \in {ExpiryRelogin(acc, t, call)} })

\* lines 290-293
CountFailure(b) ==
    IF b.fail_count = MaxFailCount
    THEN [b EXCEPT !.http_api_connected = FALSE]
    ELSE [b EXCEPT !.fail_count = @ + 1]

\* (mutant) the re-login is tied to 403 instead of 401
ReauthOn403(b, status) == status = 403 /\ b.secondary_key # 0

\* line 270: a 401 re-authenticates only while a refresh token is stored
ReauthOn401(b, status) == status = 401 /\ b.secondary_key # 0

\* (mutant) only server errors raise
RaisesForServerError(status) == status >= 500

\* line 284: raise_for_status() raises for 4xx and 5xx only
RaisesForStatus(status) == status >= 400

\* lines 265-294: what request() does once the retry loop has ended in a
\* (a.responded: with a response; otherwise every attempt raised)
RequestOutcome(a, t, call) ==
    LET log == [outcome |-> "none",
                status |-> IF a.responded THEN call.status ELSE 0,
                json |-> a.responded /\ call.json,
                raise_on_error |-> call.raise_on_error,
                reauth_expiry |-> a.reauth_expiry, reauth_401 |-> 0,
                logins |-> 0, login_kind |-> a.login_kind,
                refresh_present |-> a.base.secondary_key # 0]
    IN  IF a.responded /\ call.status = 200
        THEN \* lines 266-269; json.loads raises on a body that is not JSON
             [base |-> [a.base EXCEPT !.fail_count = 0, !.http_api_connected = TRUE],
              log  |-> [log EXCEPT !.outcome = IF call.json THEN "value" ELSE "raised"]]
        ELSE LET do401 == a.responded /\ ReauthOn401(a.base, call.status)
                 log1  == IF do401
                          THEN [log EXCEPT !.reauth_401 = 1,
                                           !.login_kind = call.login_401.final.kind]
                          ELSE log
                 raises == call.raise_on_error
                           /\ (~a.responded \/ RaisesForStatus(call.status))
             IN  TheOne({ IF raises
                          THEN [base |-> b1, log |-> [log1 EXCEPT !.outcome = "raised"]]
                          ELSE [base |-> CountFailure(b1), log |-> log1]
                          : b1 \in {IF do401 THEN connect(a.base, t, call.login_401).base
                                    ELSE a.base} })

\* request(): returns the session afterwards and what the caller observes
request(b, t, call) ==
    TheOne({ RequestOutcome(a, t, call) :
             a \in {AttemptLoop([base |-> b, retries |-> 0, reauth_expiry |-> 0,
                                 logins |-> 0, login_kind |-> "none",
                                 responded |-> FALSE],
                                t, call, EffectiveRetries(call.retry_count))} })

\* The answers the environment can give to a call made in session b at time
\* t.  An answer is drawn only where request() will ask for it: the login
\* answers only if the key is expired resp. the response is a 401 that
\* re-authenticates, the response only if some attempt does not raise.
\* (The rejections of the refresh token are exercised by the connect() the
\* platform calls; a login made from inside another handler is answered
\* without them.)
RequestLogins == {l \in LoginInputs : l.rejects = 0}
ExpiryLogins(b, t) == IF Expired(b, t) THEN RequestLogins ELSE {NoLogin}
Bodies(status) == IF status = 200 THEN BOOLEAN ELSE {FALSE}
Responses(rc, excs) ==
    IF excs > EffectiveRetries(rc)
    THEN {[status |-> 0, json |-> FALSE]}
    ELSE UNION {[status : {st}, json : Bodies(st)] : st \in Statuses}
SessionAtResponse(b, t, rc, excs, le) ==
    AttemptLoop([base |-> b, retries |-> 0, reauth_expiry |-> 0, logins |-> 0,
                 login_kind |-> "none", responded |-> FALSE], t,
                [excs |-> excs, login_exp |-> le], EffectiveRetries(rc)).base
Logins401(b, t, rc, excs, le, status) ==
    IF status = 401 /\ ReauthOn401(SessionAtResponse(b, t, rc, excs, le), status)
    THEN RequestLogins ELSE {NoLogin}

CallInputs(b, t, retry_counts, raise_modes) ==
    UNION { UNION { UNION { UNION {
        [retry_count : {rc}, raise_on_error : raise_modes, excs : {excs},
         status : {rs.status}, json : {rs.json},
         login_exp : {le}, login_401 : Logins401(b, t, rc, excs, le, rs.status)]
        : rs \in Responses(rc, excs)}
        : le \in ExpiryLogins(b, t)}
        : excs \in 0..(EffectiveRetries(rc) + 1)}
        : rc \in retry_counts}

NoCall ==
    [outcome |-> "none", status |-> 0, json |-> FALSE, raise_on_error |-> FALSE,
     reauth_expiry |-> 0, reauth_401 |-> 0,
     logins |-> 0, login_kind |-> "none", refresh_present |-> FALSE]

\* history: consecutive calls that returned None with no login in between
FailsAfter(n, log) ==
    IF log.outcome = "none" /\ log.login_kind = "none"
    THEN (IF n > MaxFailCount THEN n ELSE n + 1)
    ELSE 0

----------------------------------------------------------------------------
(* DreameMowerCloudDevice: the MQTT connection state machine *)

\* __init__, lines 37-52.  callbacks = 0 stands for the three callback
\* references being None; connect() always sets and disconnect() always
\* clears the three together, so one generation number stands for the triple.
\* timer: _mqtt_reconnect_timer is not None; timer_waiting: the Timer it
\* refers to is still waiting for its delay to pass; timers: the delays of the
\* Timer objects that are waiting (started, neither cancelled nor expired),
\* the one _mqtt_reconnect_timer refers to last.
MqttInit ==
    [client |-> FALSE, connected |-> FALSE, connecting |-> FALSE,
     timer |-> FALSE, timer_waiting |-> FALSE, timers |-> <<>>,
     client_key |-> 0, callbacks |-> 0, device_reachable |-> TRUE]

\* What the last handler run did:
\*   invoked   the callbacks it invoked, as <<name, generation>>
\*   attempt   the transport call it made: "none", "connect" or "reconnect"
\*   steps     the teardown steps of disconnect(), in execution order
\*   gens      number of callback triples registered so far
\*   dead_gen  triples 1..dead_gen were registered before a completed disconnect()
\*   rc        the reason code it was called with (-1: a handler without one)
\*   relogin   it made a session login (cloud_base.connect())
\*   subscribed it subscribed the device topic
\*   kind      the kind of the inbound message it was called with
\*   escaped   an exception left the handler
\*   nil_callback   connect() was given None for at least one callback
\*   info      connect() requested the device info from the cloud
\*   result    what connect() returned ("true", "false") or raised ("ValueError")
ChanLogInit ==
    [invoked |-> {}, attempt |-> "none", steps |-> <<>>, gens |-> 0, dead_gen |-> 0,
     rc |-> -1, relogin |-> FALSE, subscribed |-> FALSE,
     kind |-> "none", escaped |-> FALSE, nil_callback |-> FALSE, result |-> "none",
     info |-> FALSE]

\* rc of a CONNACK / of a disconnect signal (0 = success / requested,
\* 5 = not authorised, 1 = any other failure)
ConnectCodes == {0, 5}
DisconnectCodes == {0, 1, 5}
\* inbound payloads: a JSON object with a non-empty data member, with an
\* empty one ({}, [], 0, null), without one; JSON that is no object (a
\* number); text that is not JSON; bytes that are not UTF-8
MessageKinds ==
    {"data", "empty_data", "no_data", "not_object", "malformed", "not_utf8"}

\* lines 88-92: the timer _mqtt_reconnect_timer refers to is cancelled, which
\* stops it only while it is waiting (threading.Timer.cancel), and the
\* reference is dropped
TimerCancel(m) ==
    IF m.timer
    THEN [m EXCEPT !.timer = FALSE, !.timer_waiting = FALSE,
                   !.timers = IF m.timer_waiting THEN SubSeq(@, 1, Len(@) - 1) ELSE @]
    ELSE m
\* lines 115-116, 188-189, 261-262: a new Timer is started and referred to
TimerArm(m) ==
    [m EXCEPT !.timer = TRUE, !.timer_waiting = TRUE,
              !.timers = Append(@, RECONNECT_DELAY_SECONDS)]
\* threading.Timer.run: the delay of the referred timer has passed without a
\* cancel(); its task will run and can no longer be cancelled
TimerExpired(m) ==
    [m EXCEPT !.timer_waiting = FALSE, !.timers = SubSeq(@, 1, Len(@) - 1)]

\* _refresh_mqtt_credentials, lines 124-128
CredentialsChanged(m, b) == m.client_key # b.key /\ m.client
RefreshCredentials(m, b) ==
    IF CredentialsChanged(m, b) THEN [m EXCEPT !.client_key = b.key] ELSE m

\* a callback reference of the registered triple, invoked if it is not None
Invoke(m, name) == IF m.callbacks # 0 THEN {<<name, m.callbacks>>} ELSE {}

\* client.reconnect() / client.connect(): unless it raises, a CONNECT is on
\* its way and the transport will answer it
Attempted(tr, raises) == [tr EXCEPT !.inflight = ~raises]

\* (mutant) the connect handler leaves a pending reconnect timer armed
OnConnectHandlerNoCancel(m, b, rc) ==
    LET m1 == [m EXCEPT !.connecting = FALSE]
    IN  IF rc = 0
        THEN [m |-> [m1 EXCEPT !.connected = TRUE],
              invoked |-> Invoke(m1, "connected"), subscribed |-> TRUE]
        ELSE [m |-> IF CredentialsChanged(m1, b)
                    THEN RefreshCredentials(m1, b)
                    ELSE [m1 EXCEPT !.connected = FALSE],
              invoked |-> {}, subscribed |-> FALSE]

\* _on_mqtt_client_connect, lines 131-147
OnConnectHandler(m, b, rc) ==
    LET m1 == TimerCancel([m EXCEPT !.connecting = FALSE])
    IN  IF rc = 0
        THEN [m |-> [m1 EXCEPT !.connected = TRUE],
              invoked |-> Invoke(m1, "connected"), subscribed |-> TRUE]
        ELSE [m |-> IF CredentialsChanged(m1, b)
                    THEN RefreshCredentials(m1, b)
                    ELSE [m1 EXCEPT !.connected = FALSE],
              invoked |-> {}, subscribed |-> FALSE]

\* (mutant) the disconnected-callback is invoked on every disconnect signal
DisconnectedCallbackAlways(m) == Invoke(m, "disconnected")

\* lines 152-160: the disconnected-callback runs only if the channel was connected
DisconnectedCallback(m) ==
    IF m.connected THEN Invoke(m, "disconnected") ELSE {}

\* lines 165-172: credentials unchanged after an authorisation failure (rc 5)
\* with a stored expiry: the handler logs in again
ReloginNeeded(m, b, rc) ==
    rc = 5 /\ ~CredentialsChanged([m EXCEPT !.connected = FALSE], b) /\ b.key_expire # 0

\* (mutant) the timer is armed only after an immediate reconnect that raised
RearmOnFailureOnly(m, raised) ==
    IF raised THEN TimerArm(TimerCancel(m)) ELSE m

\* lines 185-189: whether or not the immediate reconnect raised, the timer is
\* (re)armed if the channel is not connected
RearmAfterDisconnect(m, raised) ==
    IF ~m.connected THEN TimerArm(TimerCancel(m)) ELSE m

\* _on_mqtt_client_disconnect, lines 150-189.  b1 is the session after the
\* re-login of line 171 (the session as it was, if none was made);
\* reconnect_raises tells whether client.reconnect() raises.
OnDisconnectHandler(m, b1, tr, rc, reconnect_raises) ==
    LET invoked == DisconnectedCallback(m)
        m1 == [m EXCEPT !.connected = FALSE]
        \* the signal means the socket is closed: nothing is in flight any more
        tr1 == [tr EXCEPT !.inflight = FALSE]
    IN  IF rc = 0
        THEN [m |-> m1, tr |-> tr1, invoked |-> invoked, attempt |-> "none"]
        ELSE LET m2 == RefreshCredentials(m1, b1)
             IN  IF ~m2.client
                 THEN [m |-> m2, tr |-> tr1, invoked |-> invoked, attempt |-> "none"]
                 ELSE LET try == ~m2.connecting
                          m3  == [m2 EXCEPT !.connecting = TRUE]
                          tr2 == IF try THEN Attempted(tr1, reconnect_raises) ELSE tr1
                          m4  == RearmAfterDisconnect(m3, try /\ reconnect_raises)
                      IN  [m |-> m4, tr |-> tr2, invoked |-> invoked,
                           attempt |-> IF try THEN "reconnect" ELSE "none"]

\* (mutant) the timer task acts whenever there is a client
TimerTaskNeededWithClient(m) == m.client

\* lines 102-105: the timer task acts only with a client that is not connected
TimerTaskNeeded(m) == m.client /\ ~m.connected

\* _mqtt_reconnect_timer_task, lines 94-116
TimerTaskHandler(m, tr, reconnect_raises) ==
    LET m1 == TimerCancel(m)
    IN  IF ~TimerTaskNeeded(m1)
        THEN [m |-> m1, tr |-> tr, attempt |-> "none"]
        ELSE LET m2 == [m1 EXCEPT !.connecting = TRUE]
             IN  [m |-> IF reconnect_raises THEN TimerArm(m2) ELSE m2,
                  tr |-> Attempted(tr, reconnect_raises),
                  attempt |-> "reconnect"]

\* The thread of the reconnect timer:
\*   due        its delay has passed and _mqtt_reconnect_timer_task is about to run
\*   at         "reconnect" while the task is between its checks (lines 102-108)
\*              and its call of reconnect() (line 111), else "none"
\*   client, connected   what the checks of lines 102 and 104 read
HandlerInit ==
    [due |-> FALSE, at |-> "none", client |-> FALSE, connected |-> FALSE]

\* lines 198-201: the exception the body of the try raises, "none" if none:
\* decode() on bytes that are not UTF-8, json.loads on text that is not
\* JSON, `"data" in response` on a number, or the message callback itself
MessageRaises(m, kind, callback_raises) ==
    CASE kind = "not_utf8"   -> "UnicodeDecodeError"
      [] kind = "malformed"  -> "JSONDecodeError"
      [] kind = "not_object" -> "TypeError"
      [] kind = "data" /\ m.callbacks # 0 /\ callback_raises -> "CallbackError"
      [] OTHER -> "none"

\* (mutant) only the JSON decode error is handled
MessageCaughtJsonOnly(exc) == exc = "JSONDecodeError"

\* lines 202-205: `except json.JSONDecodeError` and `except Exception`
MessageCaught(exc) ==
    exc = "JSONDecodeError"
    \/ exc \in {"UnicodeDecodeError", "TypeError", "CallbackError"}

\* line 194: the device is marked reachable before the payload is looked at
MarkReachable(m) == [m EXCEPT !.device_reachable = TRUE]

\* _on_mqtt_client_message, lines 192-205.  Without a registered callback
\* (line 196) the payload is not even decoded.
OnMessageHandler(m, kind, callback_raises) ==
    LET exc == IF m.callbacks = 0 THEN "none"
               ELSE MessageRaises(m, kind, callback_raises)
    IN  [m |-> MarkReachable(m),
         invoked |-> IF kind = "data" THEN Invoke(m, "message") ELSE {},
         escaped |-> exc # "none" /\ ~MessageCaught(exc)]

\* (mutant) disconnect() keeps the callback references
ClearCallbacks_Kept(m) == m

\* lines 81-83
ClearCallbacks(m) == [m EXCEPT !.callbacks = 0]

\* lines 75-80
TeardownClient(m) ==
    IF m.client
    THEN [m EXCEPT !.client = FALSE, !.connected = FALSE, !.connecting = FALSE]
    ELSE m

\* disconnect(), lines 72-86: the steps it performs, in the order it performs them
TeardownSteps(m) ==
    (IF m.client THEN <<"transport">> ELSE <<>>) \o <<"callbacks", "worker">>

----------------------------------------------------------------------------
(* DreameMowerCloudDevice: outbound commands *)

\* the threads of the platform that issue commands
Callers == 1..MaxCallers

\* no send() is under way and none was made.
\*   pending[c]  the send() caller c is in: <<>> or [entry, id], the entry
\*               point it came through and the request id in its payload
\*   issued      the request ids of the payloads built so far, in order
\*   log         how the last completed command ended
NoCommand == [caller |-> 0, entry |-> "none", id |-> 0, response |-> "none",
              code |-> 0, payload |-> "none", class |-> "none", reaches |-> "none"]
CmdInit == [pending |-> [c \in Callers |-> <<>>], issued |-> <<>>, log |-> NoCommand]

\* the command entry points: all but execute_action hand send()'s outcome on
\* (set_property and set_properties go through send() exactly as action does)
EntryPoints == {"get_properties", "action", "execute_action"}
\* lines 459, 472, 477: the default retry_count of the entry point
EntryRetryCount(entry) == IF entry = "get_properties" THEN 1 ELSE DefaultRetryCount

\* vendor codes of a parsed response: success, some error, device unreachable
VendorCodes == {0, 1, DeviceOfflineCode}
\* a parsed response carries data with a result, data without one, or no data
Payloads == {"result", "no_result", "no_data"}

\* (mutant) the unreachable code is treated like any other vendor error
SendClassNoTimeout(response, code, payload) ==
    IF response = "object" /\ code # 0 THEN "remote_error"
    ELSE IF response = "none" THEN "connection_error"
    ELSE IF payload = "result" THEN "result" ELSE "nothing"

\* send(), lines 397-429: how the command ends, given what _api_call returned
\* (response "none": None; "object": a parsed response with code and payload)
SendClass(response, code, payload) ==
    IF response = "object" /\ code = DeviceOfflineCode THEN "timeout_error"
    ELSE IF response = "object" /\ code # 0 THEN "remote_error"
    ELSE IF response = "none" THEN "connection_error"
    ELSE IF payload = "result" THEN "result" ELSE "nothing"

\* the classes of send() that are exceptions
SendErrors == {"timeout_error", "remote_error", "connection_error", "decode_error"}

\* (mutant) every failed command marks the device unreachable
ReachableAfterAnyError(m, class) ==
    [m EXCEPT !.device_reachable = class \in {"result", "nothing"}]

\* lines 397-419: device_reachable after send()
ReachableAfter(m, class) ==
    IF class = "timeout_error" THEN [m EXCEPT !.device_reachable = FALSE]
    ELSE IF class \in {"result", "nothing"} THEN [m EXCEPT !.device_reachable = TRUE]
    ELSE m

\* what the caller of the entry point gets: execute_action (lines 488-495)
\* catches every exception and returns False, the others return send()
EntryResult(entry, class) ==
    IF entry = "execute_action"
    THEN (IF class \in SendErrors THEN "false" ELSE "true")
    ELSE class

----------------------------------------------------------------------------
(* Property handlers: the values of a payload *)

\* an attribute that holds None, and one that holds v
None == <<>>
Some(v) == <<v>>

(* A value of a decoded JSON payload:                                        *)
(*   int   the integer n                                                     *)
(*   bool  True (n = 1) or False (n = 0); a bool is an int in Python         *)
(*   str   the text s; n is the number s spells when s is a numeral          *)
(*   list  the elements elems                                                *)
(*   null  None                                                              *)
(* and Absent for a key the payload does not have.                           *)
PyInt(n)  == [kind |-> "int",  n |-> n, s |-> "", elems |-> <<>>]
PyBool(b) == [kind |-> "bool", n |-> IF b THEN 1 ELSE 0, s |-> "", elems |-> <<>>]
PyNum(n)  == [kind |-> "str",  n |-> n, s |-> ToString(n), elems |-> <<>>]
PyStr(s)  == [kind |-> "str",  n |-> 0, s |-> s, elems |-> <<>>]
PyList(e) == [kind |-> "list", n |-> 0, s |-> "", elems |-> e]
Absent    == [kind |-> "absent", n |-> 0, s |-> "", elems |-> <<>>]
\* float("inf"), which json.loads reads from Infinity
PyInf     == [kind |-> "inf", n |-> 0, s |-> "inf", elems |-> <<>>]

\* isinstance(v, int): True for a bool too
IsInstanceInt(v) == v.kind \in {"int", "bool"}
\* isinstance(v, list)
IsInstanceList(v) == v.kind = "list"

\* int(v): the exception it raises, "none" when it converts
IntError(v) ==
    CASE v.kind \in {"int", "bool"} -> "none"
      [] v.kind = "str" -> IF v.s = ToString(v.n) THEN "none" ELSE "ValueError"
      [] v.kind = "inf" -> "OverflowError"
      [] OTHER -> "TypeError"
\* int(v) when it converts
IntOf(v) == v.n
\* bool(v): never raises
BoolOf(v) ==
    CASE v.kind \in {"int", "bool"} -> v.n # 0
      [] v.kind = "str" -> v.s # ""
      [] v.kind = "list" -> v.elems # <<>>
      [] v.kind = "inf" -> TRUE
      [] OTHER -> FALSE
\* str(v) of a scalar
StrOf(v) ==
    CASE v.kind = "str" -> v.s
      [] v.kind = "int" -> ToString(v.n)
      [] v.kind = "bool" -> IF v.n = 1 THEN "True" ELSE "False"
      [] v.kind = "inf" -> "inf"
      [] OTHER -> "None"

\* a list of integers
Ints(seq) == PyList([i \in 1..Len(seq) |-> PyInt(seq[i])])

----------------------------------------------------------------------------
(* Property 2:51: DndTimeHandler and its variant handlers *)

(* A 2:51 value as handed to parse_value:                                    *)
(*   form  "dict" a dict; "literal" a string spelling the dict;              *)
(*         "bad_literal" a string json.loads rejects; "other" neither        *)
(*   one field per key the payloads use, Absent when the dict lacks it       *)
Dict251(start, end, value, time, tz, type) ==
    [form |-> "dict", start |-> start, end |-> end, value |-> value,
     time |-> time, tz |-> tz, type |-> type]

\* the keys of the dict
KeysOf(p) ==
    {k \in {"start", "end", "value", "time", "tz", "type"} : p[k].kind # "absent"}

\* Property51Type
Property51Type ==
    {"dnd_schedule", "time_sync", "charging_schedule", "third_variant",
     "fourth_variant", "fifth_variant", "sixth_variant", "unknown"}

\* DndTimeHandler.__init__, with the five variant handlers it creates
DndTimeInit ==
    [payload_type |-> "unknown",
     dnd_start_minute |-> None, dnd_end_minute |-> None, dnd_enabled |-> None,
     sync_timestamp |-> None, sync_timezone |-> None,
     charging |-> [auto_recharge_percent |-> None, resume_percent |-> None,
                   enabled |-> None, start_minute |-> None, end_minute |-> None],
     third |-> [value1 |-> None, value2 |-> None, value3 |-> None],
     fourth |-> [value |-> None],
     fifth |-> [value1 |-> None, value2 |-> None, value3 |-> None, value4 |-> None],
     sixth |-> [type_value |-> None]]

\* attribute after attribute set to int(element), in the order of the source,
\* until a conversion raises: [rec, ok]
RECURSIVE SetInts(_, _, _)
SetInts(rec, names, vals) ==
    IF names = <<>> THEN [rec |-> rec, ok |-> TRUE]
    ELSE IF IntError(Head(vals)) # "none" THEN [rec |-> rec, ok |-> FALSE]
    ELSE SetInts([rec EXCEPT ![Head(names)] = Some(IntOf(Head(vals)))],
                 Tail(names), Tail(vals))

\* ChargingHandler.parse_value: [auto_recharge%, resume%, separator, enabled,
\* start_min, end_min]; every exception is caught and gives False
ChargingParse(c, v) ==
    IF ~IsInstanceList(v) \/ Len(v.elems) # 6 THEN [rec |-> c, ok |-> FALSE]
    ELSE LET a == v.elems
             r1 == SetInts(c, <<"auto_recharge_percent", "resume_percent">>,
                           <<a[1], a[2]>>)
         IN  IF ~r1.ok THEN r1
             ELSE SetInts([r1.rec EXCEPT !.enabled = Some(BoolOf(a[4]))],
                          <<"start_minute", "end_minute">>, <<a[5], a[6]>>)

\* ThirdVariantHandler.parse_value
ThirdVariantParse(c, v) ==
    IF ~IsInstanceList(v) \/ Len(v.elems) # 3 THEN [rec |-> c, ok |-> FALSE]
    ELSE SetInts(c, <<"value1", "value2", "value3">>, v.elems)

\* FourthVariantHandler.parse_value
FourthVariantParse(c, v) ==
    IF IsInstanceInt(v) THEN [rec |-> [c EXCEPT !.value = Some(IntOf(v))], ok |-> TRUE]
    ELSE [rec |-> c, ok |-> FALSE]

\* FifthVariantHandler.parse_value
FifthVariantParse(c, v) ==
    IF ~IsInstanceList(v) \/ Len(v.elems) # 4 THEN [rec |-> c, ok |-> FALSE]
    ELSE SetInts(c, <<"value1", "value2", "value3", "value4">>, v.elems)

\* SixthVariantHandler.parse_value
SixthVariantParse(c, v) ==
    IF IsInstanceInt(v) THEN [rec |-> [c EXCEPT !.type_value = Some(IntOf(v))], ok |-> TRUE]
    ELSE [rec |-> c, ok |-> FALSE]

\* what leaves a handler method: the handler afterwards, the value returned,
\* and the exception that escapes it ("none" when it returns)
Returned(h, ok) == [h |-> h, ok |-> ok, exc |-> "none"]

\* _parse_dnd_schedule: catches ValueError and KeyError only
ParseDndSchedule(h, p) ==
    IF IntError(p.start) # "none"
    THEN [h |-> h, ok |-> FALSE,
          exc |-> IF IntError(p.start) = "ValueError" THEN "none"
                  ELSE IntError(p.start)]
    ELSE LET h1 == [h EXCEPT !.dnd_start_minute = Some(IntOf(p.start))]
         IN  IF IntError(p.end) # "none"
             THEN [h |-> h1, ok |-> FALSE,
                   exc |-> IF IntError(p.end) = "ValueError" THEN "none"
                           ELSE IntError(p.end)]
             ELSE Returned([h1 EXCEPT !.dnd_end_minute = Some(IntOf(p.end)),
                                      !.dnd_enabled = Some(BoolOf(p.value)),
                                      !.sync_timestamp = None,
                                      !.sync_timezone = None], TRUE)

\* a _parse_time_sync that keeps the DND fields
ParseTimeSyncKeepsDnd(h, p) ==
    Returned([h EXCEPT !.sync_timestamp = Some(StrOf(p.time)),
                       !.sync_timezone = Some(StrOf(p.tz))], TRUE)

\* _parse_time_sync
ParseTimeSync(h, p) ==
    Returned([h EXCEPT !.sync_timestamp = Some(StrOf(p.time)),
                       !.sync_timezone = Some(StrOf(p.tz)),
                       !.dnd_start_minute = None,
                       !.dnd_end_minute = None,
                       !.dnd_enabled = None], TRUE)

\* shape predicates that demand exactly the keys of the shape
ShapeExactKeys(p, which) ==
    CASE which = "dnd" ->
            {"start", "end", "value"} = KeysOf(p) /\ IsInstanceInt(p.value)
      [] which = "time_sync" -> {"time", "tz"} = KeysOf(p)
      [] which = "list" -> {"value"} = KeysOf(p) /\ IsInstanceList(p.value)
      [] which = "value" -> {"value"} = KeysOf(p) /\ IsInstanceInt(p.value)
      [] which = "type" -> {"type"} = KeysOf(p) /\ IsInstanceInt(p.type)

\* the shape predicates of parse_value, in the order it tries them
Shape(p, which) ==
    CASE which = "dnd" ->
            {"start", "end", "value"} \subseteq KeysOf(p) /\ IsInstanceInt(p.value)
      [] which = "time_sync" -> {"time", "tz"} \subseteq KeysOf(p)
      [] which = "list" -> "value" \in KeysOf(p) /\ IsInstanceList(p.value)
      [] which = "value" -> "value" \in KeysOf(p) /\ IsInstanceInt(p.value)
      [] which = "type" -> "type" \in KeysOf(p) /\ IsInstanceInt(p.type)

\* _parse_python_literal_to_json: the dict a string spells, after every True
\* and False in it, inside string values too, was put in lower case
ParsePythonLiteral(p) ==
    [k \in DOMAIN p |->
        IF k = "form" THEN "dict"
        ELSE IF p[k].kind = "str" /\ p[k].s = "True" THEN PyStr("true")
        ELSE IF p[k].kind = "str" /\ p[k].s = "False" THEN PyStr("false")
        ELSE p[k]]

\* the body of parse_value's try block once the value is a dict
DetectAndParse(h, p) ==
    CASE Shape(p, "dnd") ->
            ParseDndSchedule([h EXCEPT !.payload_type = "dnd_schedule"], p)
      [] ~Shape(p, "dnd") /\ Shape(p, "time_sync") ->
            ParseTimeSync([h EXCEPT !.payload_type = "time_sync"], p)
      [] ~Shape(p, "dnd") /\ ~Shape(p, "time_sync") /\ Shape(p, "list") ->
            (CASE Len(p.value.elems) = 6 ->
                    LET r == ChargingParse(h.charging, p.value)
                    IN  Returned([h EXCEPT !.payload_type = "charging_schedule",
                                           !.charging = r.rec], r.ok)
               [] Len(p.value.elems) = 4 ->
                    LET r == FifthVariantParse(h.fifth, p.value)
                    IN  Returned([h EXCEPT !.payload_type = "fifth_variant",
                                           !.fifth = r.rec], r.ok)
               [] Len(p.value.elems) = 3 ->
                    LET r == ThirdVariantParse(h.third, p.value)
                    IN  Returned([h EXCEPT !.payload_type = "third_variant",
                                           !.third = r.rec], r.ok)
               [] OTHER ->
                    Returned([h EXCEPT !.payload_type = "unknown"], FALSE))
      [] ~Shape(p, "dnd") /\ ~Shape(p, "time_sync") /\ ~Shape(p, "list") /\ Shape(p, "value") ->
            LET r == FourthVariantParse(h.fourth, p.value)
            IN  Returned([h EXCEPT !.payload_type = "fourth_variant",
                                   !.fourth = r.rec], r.ok)
      [] ~Shape(p, "dnd") /\ ~Shape(p, "time_sync") /\ ~Shape(p, "list") /\ ~Shape(p, "value")
            /\ Shape(p, "type") ->
            LET r == SixthVariantParse(h.sixth, p.type)
            IN  Returned([h EXCEPT !.payload_type = "sixth_variant",
                                   !.sixth = r.rec], r.ok)
      [] OTHER ->
            Returned([h EXCEPT !.payload_type = "unknown"], FALSE)

\* DndTimeHandler.parse_value: [h, ok].  A string is parsed first; a value
\* that is neither string nor dict is refused; any exception gives UNKNOWN.
DndTimeParseValue(h, p) ==
    CASE p.form = "other" -> [h |-> h, ok |-> FALSE]
      [] p.form = "bad_literal" ->
            [h |-> [h EXCEPT !.payload_type = "unknown"], ok |-> FALSE]
      [] OTHER ->
            LET r == DetectAndParse(h, IF p.form = "literal"
                                       THEN ParsePythonLiteral(p) ELSE p)
            IN  IF r.exc = "none" THEN [h |-> r.h, ok |-> r.ok]
                ELSE [h |-> [r.h EXCEPT !.payload_type = "unknown"], ok |-> FALSE]

\* get_dnd_notification_data .. get_sixth_variant_notification_data: None
\* unless the last payload was of that variant, else the variant's fields
NotificationData(h, variant) ==
    IF h.payload_type # variant THEN None
    ELSE CASE variant = "dnd_schedule" ->
                Some(<<h.dnd_start_minute, h.dnd_end_minute, h.dnd_enabled>>)
           [] variant = "time_sync" ->
                Some(<<h.sync_timestamp, h.sync_timezone>>)
           [] variant = "charging_schedule" ->
                Some(<<h.charging.auto_recharge_percent, h.charging.resume_percent,
                       h.charging.enabled, h.charging.start_minute,
                       h.charging.end_minute>>)
           [] variant = "third_variant" ->
                Some(<<h.third.value1, h.third.value2, h.third.value3>>)
           [] variant = "fourth_variant" -> Some(<<h.fourth.value>>)
           [] variant = "fifth_variant" ->
                Some(<<h.fifth.value1, h.fifth.value2, h.fifth.value3,
                       h.fifth.value4>>)
           [] variant = "sixth_variant" -> Some(<<h.sixth.type_value>>)
           [] OTHER -> None

----------------------------------------------------------------------------
(* Property 2:51: SchedulingPropertyHandler *)

\* SchedulingPropertyHandler.__init__: the state it is the source of truth of
SchedulingInit ==
    [dnd_enabled |-> None, dnd_start_time |-> None, dnd_end_time |-> None,
     timezone |-> None, device_time |-> None]

\* one call of notify_callback(name, value)
Notify(name, value) == <<[name |-> name, value |-> value]>>
\* `if old != new: notify_callback(name, new)`
NotifyIfChanged(name, old, new) == IF old # new THEN Notify(name, new) ELSE <<>>

\* the name the notification of a variant is sent under
VariantEventName(variant) ==
    CASE variant = "dnd_schedule" -> "scheduling_dnd"
      [] variant = "time_sync" -> "scheduling_time_sync"
      [] variant = "charging_schedule" -> "scheduling_charging"
      [] variant = "third_variant" -> "scheduling_third_variant"
      [] variant = "fourth_variant" -> "scheduling_fourth_variant"
      [] variant = "fifth_variant" -> "scheduling_fifth_variant"
      [] variant = "sixth_variant" -> "scheduling_sixth_variant"

\* `if data: notify_callback(name, data)`: a dict with keys is true
NotifyVariant(h, variant) ==
    IF NotificationData(h, variant) # None
    THEN Notify(VariantEventName(variant), NotificationData(h, variant)[1])
    ELSE <<>>

\* `if old is not None: notify_callback(name, None)` for each attribute of the
\* DND and time-sync state, in the branch of the five later variants
ClearedEvents(old) ==
    NotifyIfChanged("dnd_enabled", old.dnd_enabled, None)
    \o NotifyIfChanged("dnd_start_time", old.dnd_start_time, None)
    \o NotifyIfChanged("dnd_end_time", old.dnd_end_time, None)
    \o NotifyIfChanged("timezone", old.timezone, None)
    \o NotifyIfChanged("device_time", old.device_time, None)

\* _handle_dnd_time_property: the handlers afterwards, the notifications in
\* the order sent, the value returned
HandleDndTime(h0, s0, p) ==
    LET r == DndTimeParseValue(h0, p)
        h == r.h
    IN  IF ~r.ok THEN [h |-> h, s |-> s0, events |-> <<>>, ok |-> FALSE]
        ELSE CASE h.payload_type = "dnd_schedule" ->
                    LET s == [dnd_enabled |-> h.dnd_enabled,
                              dnd_start_time |-> h.dnd_start_minute,
                              dnd_end_time |-> h.dnd_end_minute,
                              timezone |-> h.sync_timezone,
                              device_time |-> h.sync_timestamp]
                    IN  [h |-> h, s |-> s, ok |-> TRUE,
                         events |->
                            NotifyIfChanged("dnd_enabled", s0.dnd_enabled, s.dnd_enabled)
                            \o NotifyIfChanged("dnd_start_time", s0.dnd_start_time, s.dnd_start_time)
                            \o NotifyIfChanged("dnd_end_time", s0.dnd_end_time, s.dnd_end_time)
                            \o NotifyIfChanged("timezone", s0.timezone, s.timezone)
                            \o NotifyIfChanged("device_time", s0.device_time, s.device_time)
                            \o NotifyVariant(h, "dnd_schedule")]
               [] h.payload_type = "time_sync" ->
                    LET s == [dnd_enabled |-> h.dnd_enabled,
                              dnd_start_time |-> h.dnd_start_minute,
                              dnd_end_time |-> h.dnd_end_minute,
                              timezone |-> h.sync_timezone,
                              device_time |-> h.sync_timestamp]
                    IN  [h |-> h, s |-> s, ok |-> TRUE,
                         events |->
                            NotifyIfChanged("timezone", s0.timezone, s.timezone)
                            \o NotifyIfChanged("device_time", s0.device_time, s.device_time)
                            \o NotifyIfChanged("dnd_enabled", s0.dnd_enabled, s.dnd_enabled)
                            \o NotifyIfChanged("dnd_start_time", s0.dnd_start_time, s.dnd_start_time)
                            \o NotifyIfChanged("dnd_end_time", s0.dnd_end_time, s.dnd_end_time)
                            \o NotifyVariant(h, "time_sync")]
               [] h.payload_type \in {"charging_schedule", "third_variant",
                                      "fourth_variant", "fifth_variant",
                                      "sixth_variant"} ->
                    [h |-> h, s |-> SchedulingInit, ok |-> TRUE,
                     events |-> ClearedEvents(s0) \o NotifyVariant(h, h.payload_type)]
               [] OTHER -> [h |-> h, s |-> s0, events |-> <<>>, ok |-> TRUE]

----------------------------------------------------------------------------
(* Property 1:1: Property11Handler *)

\* line 40: the length of the array; line 45: the sentinel 0xCE at both ends
FrameLength == 20
Sentinel == 206

\* Property11Handler.__init__
Property11Init ==
    [temperature |-> None, mode |-> None, submode |-> None, battery_raw |-> None,
     status_flag |-> None, phase_marker_hi |-> None, phase_marker_lo |-> None,
     aux_code |-> None]

\* line 40: a list of 20 elements
FormatOk(v) == v.form = "list" /\ Len(v.elems) = FrameLength

\* a sentinel check that accepts every array
SentinelsUnchecked(v) == TRUE
\* line 45: value[0] and value[19] are the sentinel
SentinelsOk(v) ==
    /\ IsInstanceInt(v.elems[1]) /\ v.elems[1].n = Sentinel
    /\ IsInstanceInt(v.elems[FrameLength]) /\ v.elems[FrameLength].n = Sentinel

\* Property11Handler.parse_value: [rec, ok].  payload = value[1:19], so p_k is
\* payload[k + 1] here; the attributes are stored in the order of lines 53-63
\* and a conversion that raises ends the decode with False (lines 66-68).
\* The temperature, float(raw) / 10.0, is kept as the fraction raw / 10.
Property11Parse(f, v) ==
    IF ~FormatOk(v) THEN [rec |-> f, ok |-> FALSE]
    ELSE IF ~SentinelsOk(v) THEN [rec |-> f, ok |-> FALSE]
    ELSE LET payload == SubSeq(v.elems, 2, 19)
             r == SetInts(f, <<"mode", "battery_raw", "phase_marker_hi",
                               "phase_marker_lo", "submode", "aux_code",
                               "status_flag">>,
                          <<payload[7], payload[11], payload[12], payload[13],
                            payload[14], payload[15], payload[18]>>)
         IN  IF ~r.ok \/ IntError(payload[17]) # "none"
             THEN [rec |-> r.rec, ok |-> FALSE]
             ELSE [rec |-> [r.rec EXCEPT !.temperature =
                               Some([num |-> IntOf(payload[17]), den |-> 10])],
                   ok |-> TRUE]

----------------------------------------------------------------------------
(* Mission completion event 4:1 and task status 5:104 *)

\* MissionCompletionEventHandler.__init__ and _reset_values
MissionInit ==
    [progress_percent |-> None, duration_minutes |-> None, area_sqm |-> None,
     unknown_field_7 |-> None, start_timestamp |-> None, data_file_path |-> None,
     unknown_field_11 |-> None, charging_events |-> None,
     unknown_field_14 |-> None, unknown_field_15 |-> None,
     unknown_field_60 |-> None, start_datetime |-> None,
     data_file_content |-> None]

\* the attribute an argument of an int-valued piid is stored in
MissionIntField(piid) ==
    CASE piid = 1 -> "progress_percent"
      [] piid = 2 -> "duration_minutes"
      [] piid = 7 -> "unknown_field_7"
      [] piid = 11 -> "unknown_field_11"
      [] piid = 14 -> "unknown_field_14"
      [] piid = 15 -> "unknown_field_15"
      [] piid = 60 -> "unknown_field_60"

\* one argument of the event, {"piid": piid, "value": value}; an argument
\* without the key "piid" has None in its place, one without the key "value"
\* has Absent
Arg(piid, value) == <<Some(piid), value>>

\* the loop over the arguments: [rec, ok], ok FALSE when an argument raised
\* (a missing key, a conversion that fails, or an unknown piid).  The area,
\* float(value) / 100.0, is kept as a fraction; datetime.fromtimestamp wants
\* a number.
RECURSIVE MissionArguments(_, _)
MissionArguments(f, args) ==
    IF args = <<>> THEN [rec |-> f, ok |-> TRUE]
    ELSE IF Head(args)[1] = None \/ Head(args)[2] = Absent
    THEN [rec |-> f, ok |-> FALSE]
    ELSE LET piid == Head(args)[1][1]
             value == Head(args)[2]
         IN  CASE piid \in {1, 2, 7, 11, 14, 15, 60} ->
                    IF IntError(value) # "none" THEN [rec |-> f, ok |-> FALSE]
                    ELSE MissionArguments(
                            [f EXCEPT ![MissionIntField(piid)] = Some(IntOf(value))],
                            Tail(args))
               [] piid = 3 ->
                    IF IntError(value) # "none" THEN [rec |-> f, ok |-> FALSE]
                    ELSE MissionArguments(
                            [f EXCEPT !.area_sqm = Some([num |-> IntOf(value), den |-> 100])],
                            Tail(args))
               [] piid = 8 ->
                    IF IntError(value) # "none" THEN [rec |-> f, ok |-> FALSE]
                    ELSE IF ~IsInstanceInt(value)
                    THEN [rec |-> [f EXCEPT !.start_timestamp = Some(IntOf(value))],
                          ok |-> FALSE]
                    ELSE MissionArguments(
                            [f EXCEPT !.start_timestamp = Some(IntOf(value)),
                                      !.start_datetime = Some([timestamp |-> IntOf(value)])],
                            Tail(args))
               [] piid = 9 ->
                    MissionArguments([f EXCEPT !.data_file_path = Some(StrOf(value))],
                                     Tail(args))
               [] piid = 13 ->
                    MissionArguments([f EXCEPT !.charging_events = Some(value)],
                                     Tail(args))
               [] OTHER -> [rec |-> f, ok |-> FALSE]

\* `if self._x is not None: notify_callback(name, self._x)`
NotifyIfSet(name, value) ==
    IF value # None THEN <<[name |-> name, value |-> value]>> ELSE <<>>

\* _parse_mission_completion_event: reset, parse every argument, then the
\* notification of the whole event followed by those of five of its fields
ParseMissionCompletionEvent(args) ==
    LET r == MissionArguments(MissionInit, args)
        f == r.rec
    IN  IF ~r.ok THEN [rec |-> f, events |-> <<>>, ok |-> FALSE]
        ELSE [rec |-> f, ok |-> TRUE,
              events |->
                <<[name |-> "mission_completion_event",
                   value |-> <<f.progress_percent, f.duration_minutes, f.area_sqm,
                               f.unknown_field_7, f.start_timestamp,
                               f.data_file_path, f.unknown_field_11,
                               f.charging_events, f.unknown_field_14,
                               f.unknown_field_15, f.unknown_field_60>>]>>
                \o NotifyIfSet("mission_progress_percent", f.progress_percent)
                \o NotifyIfSet("mission_duration_minutes", f.duration_minutes)
                \o NotifyIfSet("mission_area_sqm", f.area_sqm)
                \o NotifyIfSet("mission_data_file_path", f.data_file_path)
                \o NotifyIfSet("mission_start_timestamp", f.start_timestamp)]

\* charging_event_count: len() of the charging events, 0 when there are
\* none; None when len() raises, as it does on a number that is not 0
ChargingEventCount(f) ==
    IF f.charging_events = None THEN Some(0)
    ELSE LET v == f.charging_events[1]
         IN  IF v.kind = "list" THEN Some(Len(v.elems))
             ELSE IF IsInstanceInt(v) /\ v.n = 0 THEN Some(0)
             ELSE None

\* sum(event[1] for event in events if len(event) >= 2)
RECURSIVE SumOfDurations(_)
SumOfDurations(events) ==
    IF events = <<>> THEN 0
    ELSE (IF Len(Head(events).elems) >= 2 THEN Head(events).elems[2].n ELSE 0)
         + SumOfDurations(Tail(events))

\* total_charging_time_minutes: None when an event is not a list, or the
\* events are not one
TotalChargingTimeMinutes(f) ==
    IF f.charging_events = None THEN Some(0)
    ELSE LET v == f.charging_events[1]
         IN  IF v.kind = "list"
             THEN IF \A i \in DOMAIN v.elems : v.elems[i].kind = "list"
                  THEN Some(SumOfDurations(v.elems))
                  ELSE None
             ELSE IF IsInstanceInt(v) /\ v.n = 0 THEN Some(0)
             ELSE None

\* a mapping that describes every code, the unmapped ones generically
TaskStatusDescriptionGeneric(code) ==
    CASE code = 7 -> "Task incomplete - spot mowing"
      [] OTHER -> "Unknown task status"

\* TASK_STATUS_MAPPING: the known codes and their descriptions
TaskStatusDescription(code) ==
    CASE code = 7 -> "Task incomplete - spot mowing"
      [] code = 13 -> "Unknown task status: 13"
      [] OTHER -> ""

\* an except clause for ValueError and TypeError only: what still passes
ExceptValueTypeError(exc) ==
    IF exc \in {"ValueError", "TypeError"} THEN "none" ELSE exc

\* `except Exception` around the body of an entry point: the exception
\* that still reaches the caller, "none" as every exception is caught
ExceptException(exc) ==
    IF exc \in {"ValueError", "TypeError", "KeyError", "IndexError", "OverflowError"}
    THEN "none" ELSE exc

\* _handle_task_status_property: [code, events, ok, exc].  It catches
\* ValueError and TypeError; exc is the exception that leaves it.
HandleTaskStatus(old, value) ==
    IF IntError(value) \notin {"none", "ValueError", "TypeError"}
    THEN [code |-> old, events |-> <<>>, ok |-> FALSE, exc |-> IntError(value)]
    ELSE IF IntError(value) # "none" \/ TaskStatusDescription(IntOf(value)) = ""
    THEN [code |-> old, events |-> <<>>, ok |-> FALSE, exc |-> "none"]
    ELSE LET code == Some(IntOf(value))
         IN  [code |-> code, ok |-> TRUE, exc |-> "none",
              events |->
                <<[name |-> "task_status",
                   value |-> <<code, Some(TaskStatusDescription(IntOf(value)))>>]>>
                \o NotifyIfChanged("task_status_code", old, code)]

----------------------------------------------------------------------------
(* Device code 2:2: the registries and the DeviceCodeHandler *)

\* BASE_DEVICE_CODES: the device codes of the Dreame A2
BASE_DEVICE_CODES ==
    (0 :> [name |-> "NO_DEVICE_CODE", code_type |-> "INFO",
            description |-> "No device code - normal operation"])
 @@ (2 :> [name |-> "MOWER_GOT_STUCK", code_type |-> "ERROR",
            description |-> "Mower got stuck and cannot continue"])
 @@ (9 :> [name |-> "BUMPER_ERROR", code_type |-> "ERROR",
            description |-> "Bumper error"])
 @@ (18 :> [name |-> "ROBOT_IS_OUT_OF_MAP", code_type |-> "ERROR",
            description |-> "Robot is out of map boundaries"])
 @@ (19 :> [name |-> "ROBOT_IS_LOST", code_type |-> "ERROR",
            description |-> "Robot is lost (or Emergency stop pressed for A1)"])
 @@ (21 :> [name |-> "ROBOT_STUCK_IN_NO_GO_ZONE", code_type |-> "ERROR",
            description |-> "The robot is stuck in a no-go zone"])
 @@ (23 :> [name |-> "EMERGENCY_STOP_PRESSED", code_type |-> "ERROR",
            description |-> "Emergency stop button was pressed"])
 @@ (24 :> [name |-> "BATTERY_IS_LOW_POWERING_OFF", code_type |-> "ERROR",
            description |-> "Battery is low, powering off"])
 @@ (27 :> [name |-> "POSITIONING_FAILED", code_type |-> "ERROR",
            description |-> "Positioning failed"])
 @@ (28 :> [name |-> "BLADES_SEVERELY_WORN", code_type |-> "WARNING",
            description |-> "Blades are severely worn. Replace them soon."])
 @@ (31 :> [name |-> "FAILED_TO_RETURN_TO_DOCK", code_type |-> "ERROR",
            description |-> "Failed to return to docking station"])
 @@ (34 :> [name |-> "BATTERY_IS_LOW_RETURNING_TO_DOCK_34", code_type |-> "INFO",
            description |-> "Battery is low, returning to dock"])
 @@ (35 :> [name |-> "BATTERY_IS_LOW_RETURNING_TO_DOCK_35", code_type |-> "INFO",
            description |-> "Battery is low, returning to dock"])
 @@ (43 :> [name |-> "CHARGING_PAUSED_BATTERY_TEMP_TOO_LOW", code_type |-> "WARNING",
            description |-> "Charging paused: battery temperature is too low"])
 @@ (47 :> [name |-> "ROBOT_IS_WORKING_SCHEDULED_TASK_CANCELLED", code_type |-> "INFO",
            description |-> "Robot is working, scheduled task cancelled"])
 @@ (48 :> [name |-> "MOWING_COMPLETED", code_type |-> "INFO",
            description |-> "Mowing task completed successfully"])
 @@ (49 :> [name |-> "MOWING_TASK_STARTED", code_type |-> "INFO",
            description |-> "Mowing task started"])
 @@ (50 :> [name |-> "MOWING_STARTED", code_type |-> "INFO",
            description |-> "Mowing operation started"])
 @@ (53 :> [name |-> "RAIN_DETECTED", code_type |-> "WARNING",
            description |-> "Rain detected, operation paused"])
 @@ (54 :> [name |-> "LOW_BATTERY", code_type |-> "WARNING",
            description |-> "Low battery warning"])
 @@ (56 :> [name |-> "WATER_ON_LIDAR", code_type |-> "WARNING",
            description |-> "Water detected on LiDAR sensor"])
 @@ (59 :> [name |-> "LID_IS_OPEN", code_type |-> "ERROR",
            description |-> "Device lid is open"])
 @@ (61 :> [name |-> "DND_START", code_type |-> "INFO",
            description |-> "Do Not Disturb period started"])
 @@ (70 :> [name |-> "DND_END", code_type |-> "INFO",
            description |-> "Do Not Disturb period ended"])

\* A1_DEVICE_CODES: what the A1 and A1 Pro models change
A1_DEVICE_CODES ==
    (19 :> [name |-> "EMERGENCY_STOP_PRESSED", code_type |-> "ERROR",
            description |-> "Emergency stop pressed (A1 model specific)"])
 @@ (53 :> [name |-> "MOWING_STARTED", code_type |-> "INFO",
            description |-> "Mowing operation started"])
 @@ (70 :> [name |-> "MOWING_RESUMED_AFTER_CHARGING", code_type |-> "INFO",
            description |-> "Mower resumed mowing after recharge"])
 @@ (73 :> [name |-> "ROBOT_LIFTED", code_type |-> "ERROR",
            description |-> "Robot was lifted"])

\* MOVA_DEVICE_CODES: what the MOVA 600 and MOVA 1000 models change
MOVA_DEVICE_CODES ==
    (0 :> [name |-> "ROBOT_LIFTED", code_type |-> "ERROR",
            description |-> "Robot lifted"])
 @@ (1 :> [name |-> "ROBOT_TILTED", code_type |-> "ERROR",
            description |-> "Robot tilted"])
 @@ (12 :> [name |-> "LIDAR_IS_BLOCKED", code_type |-> "ERROR",
            description |-> "Lidar is blocked"])
 @@ (30 :> [name |-> "MAINTENANCE_TIME_REACHED", code_type |-> "WARNING",
            description |-> "Robot maintenance time reached. Maintain the robot soon"])
 @@ (55 :> [name |-> "ROBOT_CANT_START_LOW_BATTERY", code_type |-> "ERROR",
            description |-> "Robot can't start due to low battery"])
 @@ (70 :> [name |-> "CONTINUE_UNFINISHED_TASK", code_type |-> "INFO",
            description |-> "Robot will continue the unfinished task"])

\* DeviceCodeRegistry.extend: the codes merged, the additional ones winning
Extend(codes, additional_codes) == additional_codes @@ codes

\* the three registries built when the module is loaded
DeviceCodeRegistry(registry) ==
    CASE registry = "A1" -> Extend(BASE_DEVICE_CODES, A1_DEVICE_CODES)
      [] registry = "MOVA" -> Extend(BASE_DEVICE_CODES, MOVA_DEVICE_CODES)
      [] OTHER -> BASE_DEVICE_CODES

\* get_device_code_registry(model): the registry a model decodes with
GetDeviceCodeRegistry(model) ==
    IF model = None THEN "BASE"
    ELSE IF model[1] \in {"dreame.mower.p2255", "dreame.mower.g2422"} THEN "A1"
    ELSE IF model[1] \in {"mova.mower.g2405b", "mova.mower.g2405c"} THEN "MOVA"
    ELSE "BASE"

\* DeviceCodeHandler.__init__(model)
DeviceCodeInit(model) ==
    [device_code |-> None, device_code_name |-> None,
     device_code_description |-> None, device_code_is_error |-> None,
     device_code_is_warning |-> None,
     registry |-> GetDeviceCodeRegistry(model), model |-> model]

\* a set_model that decodes the stored code again with the new registry
SetModelDecodesAgain(h, model) ==
    LET codes == DeviceCodeRegistry(GetDeviceCodeRegistry(model))
        known == h.device_code # None /\ h.device_code[1] \in DOMAIN codes
    IN  [h EXCEPT !.registry = GetDeviceCodeRegistry(model), !.model = model,
                  !.device_code_name =
                      IF known THEN Some(codes[h.device_code[1]].name) ELSE @]

\* set_model
SetModel(h, model) ==
    [h EXCEPT !.registry = GetDeviceCodeRegistry(model), !.model = model]

\* a parse_value that refuses the codes the registry does not hold
DeviceCodeParseKnownOnly(h, value) ==
    IF IntError(value) # "none" \/ IntOf(value) \notin DOMAIN DeviceCodeRegistry(h.registry)
    THEN [h |-> h, ok |-> FALSE, exc |-> "none"]
    ELSE LET definition == DeviceCodeRegistry(h.registry)[IntOf(value)]
         IN  [h |-> [h EXCEPT !.device_code = Some(IntOf(value)),
                              !.device_code_name = Some(definition.name),
                              !.device_code_description = Some(definition.description),
                              !.device_code_is_error = Some(definition.code_type = "ERROR"),
                              !.device_code_is_warning = Some(definition.code_type = "WARNING")],
              ok |-> TRUE, exc |-> "none"]

\* DeviceCodeHandler.parse_value: [h, ok, exc].  int(value) first, its
\* ValueError and TypeError caught; then the definition of the code in the
\* registry, or the placeholders formatted with the code.
DeviceCodeParseValue(h, value) ==
    IF IntError(value) # "none"
    THEN [h |-> h, ok |-> FALSE,
          exc |-> IF IntError(value) \in {"ValueError", "TypeError"}
                  THEN "none" ELSE IntError(value)]
    ELSE LET code == IntOf(value)
             codes == DeviceCodeRegistry(h.registry)
             found == code \in DOMAIN codes
         IN  [h |-> [h EXCEPT
                       !.device_code = Some(code),
                       !.device_code_name =
                           Some(IF found THEN codes[code].name
                                ELSE "Unknown Code " \o ToString(code)),
                       !.device_code_description =
                           Some(IF found THEN codes[code].description
                                ELSE "Unknown device code: " \o ToString(code)),
                       !.device_code_is_error =
                           Some(found /\ codes[code].code_type = "ERROR"),
                       !.device_code_is_warning =
                           Some(found /\ codes[code].code_type = "WARNING")],
              ok |-> TRUE, exc |-> "none"]

----------------------------------------------------------------------------
(* Property handlers: state *)

\* no 2:51 value handed in yet
NoPayload251 ==
    [form |-> "none", start |-> Absent, end |-> Absent, value |-> Absent,
     time |-> Absent, tz |-> Absent, type |-> Absent]

\* what a consumer could read of the 2:51 state: the five attributes of the
\* SchedulingPropertyHandler and the notification data of every variant
Readable251(h, s) ==
    [s |-> s,
     data |-> [v \in Property51Type \ {"unknown"} |-> NotificationData(h, v)]]

(* The property handlers after construction, and the last update:            *)
(*   dnd_time     the DndTimeHandler                                          *)
(*   scheduling   the state of the SchedulingPropertyHandler                  *)
(*   property_1_1 the Property11Handler                                       *)
(*   mission      the MissionCompletionEventHandler                           *)
(*   task_status_code  the 5:104 state of the Service5PropertyHandler         *)
(*   device_code  the DeviceCodeHandler, constructed without a model          *)
(*   source       the property or event handled last, "none" before any       *)
(*   payload      the value handed in last                                    *)
(*   before       what was readable of the handler before the last update     *)
(*   events       the notify_callback calls of the last update, in order      *)
(*   ok           the value the last update returned                          *)
(*   raised       the exception the last update raised to its caller, "none"  *)
(*                when it returned                                            *)
DecoderInit ==
    [dnd_time |-> DndTimeInit, scheduling |-> SchedulingInit,
     property_1_1 |-> Property11Init,
     mission |-> MissionInit, task_status_code |-> None,
     device_code |-> DeviceCodeInit(None),
     source |-> "none", payload |-> NoPayload251,
     before |-> Readable251(DndTimeInit, SchedulingInit),
     events |-> <<>>, ok |-> FALSE, raised |-> "none"]

----------------------------------------------------------------------------
(* Initial state: the objects right after construction *)

Init ==
    /\ cloud_base = BaseInit
    /\ thread = "none"
    /\ queue = <<>>
    /\ current = <<>>
    /\ mqtt = MqttInit
    /\ now = StartTime
    /\ transport = [clients |-> 0, inflight |-> FALSE]
    /\ last_op = "init"
    /\ call_log = NoCall
    /\ consec_fails = 0
    /\ worker_log = [submitted |-> 0, delivered |-> <<>>, starts |-> 0,
                     exit_cause |-> "none"]
    /\ chan_log = ChanLogInit
    /\ cmd = CmdInit
    /\ handler = HandlerInit
    /\ auth = AuthInit
    /\ decoder = DecoderInit

----------------------------------------------------------------------------
(* Actions of the cloud session *)

\* DreameMowerCloudBase.connect() called by the platform
Authenticate ==
    \E login \in LoginInputs :
        \E r \in {connect(cloud_base, now, login)} :
            /\ cloud_base' = r.base
            /\ last_op' = "connect"
            /\ call_log' = [NoCall EXCEPT !.logins = r.logins,
                                          !.login_kind = login.final.kind]
            /\ consec_fails' = 0
            /\ UNCHANGED <<auth, decoder, cmd, handler, workerVars, chanVars, now>>

\* DreameMowerCloudBase.request() called by the platform (through _api_call)
ApiCall ==
    \E call \in CallInputs(cloud_base, now, DefaultRetries, BOOLEAN) :
        \E r \in {request(cloud_base, now, call)} :
            /\ cloud_base' = r.base
            /\ last_op' = "request"
            /\ call_log' = r.log
            /\ consec_fails' = FailsAfter(consec_fails, r.log)
            /\ UNCHANGED <<auth, decoder, cmd, handler, workerVars, chanVars, now>>

\* the initial accumulator of the retry loop, lines 219-223
LoopStart(b) ==
    [base |-> b, retries |-> 0, reauth_expiry |-> 0, logins |-> 0,
     login_kind |-> "none", responded |-> FALSE]

\* the number of session.post() calls of one request(): one per iteration of
\* the loop of lines 223-264, each of which either raises or ends the loop
HttpAttempts(b, t, call) ==
    TheOne({ a.retries + (IF a.responded THEN 1 ELSE 0) :
             a \in {AttemptLoop(LoopStart(b), t, call,
                                EffectiveRetries(call.retry_count))} })

\* DreameMowerCloudBase.request() called with any retry_count, observed
\* together with the number of HTTP attempts it made
ApiCallRetries ==
    \E call \in CallInputs(cloud_base, now, RetryCounts, {FALSE}) :
        \E r \in {request(cloud_base, now, call)} :
            /\ cloud_base' = r.base
            /\ last_op' = "request_retries"
            /\ call_log' = r.log @@ [attempts |-> HttpAttempts(cloud_base, now, call),
                                     retry_count |-> call.retry_count,
                                     excs |-> call.excs]
            /\ consec_fails' = FailsAfter(consec_fails, r.log)
            /\ UNCHANGED <<auth, decoder, cmd, handler, workerVars, chanVars, now>>

\* the wall clock advances
Tick ==
    /\ now < StartTime + MaxTicks
    /\ now' = now + 1
    /\ last_op' = "tick"
    /\ call_log' = NoCall
    /\ UNCHANGED <<auth, decoder, cmd, handler, cloud_base, consec_fails, workerVars, chanVars>>

\* line 206: the item put on the queue, (callback, url, params, retry_count)
Item(callback, url, retry_count) == <<callback, url, 0, retry_count>>
\* line 300: the empty item that stops the worker
Poison == <<>>
\* line 186
IsPoison(item) == Len(item) = 0

\* lines 299-305 of DreameMowerCloudBase.disconnect()
BaseDisconnected(b) == [b EXCEPT !.http_api_connected = FALSE, !.logged_in = FALSE]
PoisonedQueue(th, q) == IF th # "none" THEN Append(q, Poison) ELSE q

\* DreameMowerCloudBase.disconnect() called by the platform
BaseDisconnect ==
    /\ Len(queue) <= MaxSubmits
    /\ queue' = PoisonedQueue(thread, queue)
    /\ cloud_base' = BaseDisconnected(cloud_base)
    /\ last_op' = "base_disconnect"
    /\ call_log' = NoCall
    /\ UNCHANGED <<auth, decoder, cmd, handler, thread, current, worker_log, consec_fails, chanVars, now>>

----------------------------------------------------------------------------
(* The async call queue of DreameMowerCloudBase *)

\* line 185: queue.Queue is first-in first-out
QueueGet(q) == [item |-> Head(q), rest |-> Tail(q)]

\* line 189: the callback of the item receives the result of the call made
\* for the url of the same item
Delivery(item, outcome) == <<item[1], item[2], outcome>>

\* _api_call_async(callback, url): the k-th submission carries callback k, url k
ScheduleAsync ==
    /\ worker_log.submitted < MaxSubmits
    /\ LET k == worker_log.submitted + 1
           start == (thread = "none")
       IN  /\ thread' = IF start THEN "waiting" ELSE thread
           /\ queue' = Append(queue, Item(k, k, DefaultRetryCount))
           /\ worker_log' = [worker_log EXCEPT
                                !.submitted = k,
                                !.starts = IF start THEN @ + 1 ELSE @]
    /\ last_op' = "api_call_async"
    /\ call_log' = NoCall
    /\ UNCHANGED <<auth, decoder, cmd, handler, cloud_base, current, consec_fails, chanVars, now>>

\* _api_task, lines 185-188: take the next item; the poison item ends the thread
WorkerGet ==
    /\ thread = "waiting"
    /\ queue # <<>>
    /\ LET g == QueueGet(queue)
       IN  /\ queue' = g.rest
           /\ IF IsPoison(g.item)
              THEN /\ thread' = "exited"
                   /\ current' = <<>>
                   /\ worker_log' = [worker_log EXCEPT !.exit_cause = "poison"]
              ELSE /\ thread' = "busy"
                   /\ current' = g.item
                   /\ UNCHANGED worker_log
    /\ last_op' = "worker_get"
    /\ call_log' = NoCall
    /\ UNCHANGED <<auth, decoder, cmd, handler, cloud_base, consec_fails, chanVars, now>>

\* _api_task, lines 189-191: make the call, hand the result to the callback.
\* Nothing in _api_task catches: if the call raises (a 200 whose body is not
\* JSON) or the callback raises, the exception ends the thread.
WorkerExec ==
    /\ thread = "busy"
    /\ \E call \in CallInputs(cloud_base, now, {current[4]}, {FALSE}),
          callback_raises \in BOOLEAN :
        \E r \in {request(cloud_base, now, call)} :
        LET call_raised == r.log.outcome = "raised"
        IN  /\ cloud_base' = r.base
            /\ call_log' = r.log
            /\ consec_fails' = FailsAfter(consec_fails, r.log)
            /\ thread' = IF call_raised \/ callback_raises THEN "exited" ELSE "waiting"
            /\ worker_log' = [worker_log EXCEPT
                 !.delivered = IF call_raised THEN @
                               ELSE Append(@, Delivery(current, r.log.outcome)),
                 !.exit_cause = IF call_raised \/ callback_raises
                                THEN "exception" ELSE @]
    /\ current' = <<>>
    /\ last_op' = "worker_exec"
    /\ UNCHANGED <<auth, decoder, cmd, handler, queue, chanVars, now>>

----------------------------------------------------------------------------
(* Actions of the MQTT channel *)

\* answers of the login endpoint to a login made from a channel handler
ChannelLogins(needed) ==
    IF needed THEN RequestLogins ELSE {NoLogin}

\* the three callbacks connect() takes
CallbackNames == {"message", "connected", "disconnected"}

\* (mutant) connect() does not look at its callbacks
CallbacksNotChecked(nil) == TRUE

\* line 232: none of the callbacks is None
CallbacksGiven(nil) == nil = {}

\* (mutant) connect() never takes the already-connected shortcut
FullyConnectedNever(m, b) == FALSE

\* cloud_device.py line 64 (the `connected` property) as tested at line 236
FullyConnected(m, b) == Connected(b) /\ m.connected

\* connect(), lines 236-299, for callbacks that are all given (generation gen).
\* b1 is the session after the login of line 313 (the session as it was, if
\* none was needed), r the outcome of the device-info request of line 318;
\* info_ok: the answer has code 0 and the data keys; host_ok: the host parses;
\* raises: client.reconnect() (line 256) or client.connect() (line 294) raises.
DeviceConnectHandler(m, b, b1, r, tr, gen, info_ok, host_ok, raises) ==
    IF FullyConnected(m, b)
    THEN [m |-> [m EXCEPT !.callbacks = gen], b |-> b, tr |-> tr,
          attempt |-> "none", registered |-> TRUE, result |-> "true"]
    ELSE IF ~b1.logged_in
    THEN [m |-> m, b |-> b1, tr |-> tr, attempt |-> "none", registered |-> FALSE,
          result |-> "false"]
    ELSE IF r.log.outcome # "value" \/ ~info_ok
    THEN [m |-> m, b |-> r.base, tr |-> tr, attempt |-> "none", registered |-> FALSE,
          result |-> "false"]
    ELSE
    LET m1 == [m EXCEPT !.callbacks = gen]
    IN  IF m1.client
        THEN LET m2 == RefreshCredentials(m1, r.base)
                 m3 == [m2 EXCEPT !.connecting = TRUE]
             IN  IF ~m2.connected /\ ~m2.connecting
                 THEN [m |-> IF raises THEN TimerArm(TimerCancel(m3)) ELSE m3,
                       b |-> r.base, tr |-> Attempted(tr, raises),
                       attempt |-> "reconnect", registered |-> TRUE,
                       result |-> "true"]
                 ELSE [m |-> m2, b |-> r.base, tr |-> tr,
                       attempt |-> "none", registered |-> TRUE, result |-> "true"]
        ELSE IF ~host_ok
        THEN [m |-> m1, b |-> r.base, tr |-> tr, attempt |-> "none",
              registered |-> TRUE, result |-> "false"]
        ELSE [m |-> RefreshCredentials([m1 EXCEPT !.client = TRUE], r.base),
              b |-> r.base,
              tr |-> Attempted([tr EXCEPT !.clients = @ + 1], raises),
              attempt |-> "connect", registered |-> TRUE,
              result |-> IF raises THEN "false" ELSE "true"]

\* no device-info request is made
NoInfoCall ==
    [retry_count |-> DefaultRetryCount, raise_on_error |-> FALSE, excs |-> 0,
     status |-> 0, json |-> FALSE, login_exp |-> NoLogin, login_401 |-> NoLogin]

\* answers of the cloud to the device-info request of connect(): every
\* attempt answered at once, or every attempt failing in transport
InfoCalls(b, t) ==
    {c \in CallInputs(b, t, DefaultRetries, {FALSE}) :
        c.excs \in {0, DefaultRetryCount + 1}}

\* the inputs of connect() that are read only on some paths are drawn only there
IfReached(reached) == IF reached THEN BOOLEAN ELSE {FALSE}

\* DreameMowerCloudDevice.connect() called by the platform
DeviceConnect ==
    /\ chan_log.gens < MaxConnects
    /\ \E nil \in SUBSET CallbackNames :
       IF ~CallbacksGiven(nil)
       THEN \* lines 232-233: ValueError
            /\ chan_log' = [chan_log EXCEPT
                    !.invoked = {}, !.attempt = "none", !.steps = <<>>,
                    !.rc = -1, !.relogin = FALSE, !.subscribed = FALSE,
                    !.kind = "none", !.escaped = FALSE, !.nil_callback = TRUE,
                    !.result = "ValueError", !.info = FALSE]
            /\ UNCHANGED <<mqtt, cloud_base, transport>>
       ELSE
       LET fast == FullyConnected(mqtt, cloud_base)
       IN
       \E login \in ChannelLogins(~fast /\ ~Connected(cloud_base)) :
       \E b1 \in {IF fast \/ Connected(cloud_base) THEN cloud_base
                  ELSE connect(cloud_base, now, login).base} :
       \E call \in IF fast \/ ~b1.logged_in THEN {NoInfoCall} ELSE InfoCalls(b1, now) :
       \E r \in {IF fast \/ ~b1.logged_in THEN [base |-> b1, log |-> NoCall]
                 ELSE request(b1, now, call)} :
       \E info_ok \in IfReached(~fast /\ b1.logged_in /\ r.log.outcome = "value") :
       \E host_ok \in IfReached(info_ok /\ ~mqtt.client) :
       \E raises \in IfReached(info_ok /\ (host_ok \/ (mqtt.client /\ ~mqtt.connected
                                                        /\ ~mqtt.connecting))) :
       \E d \in {DeviceConnectHandler(mqtt, cloud_base, b1, r, transport,
                                      chan_log.gens + 1, info_ok, host_ok, raises)} :
            /\ mqtt' = d.m
            /\ cloud_base' = d.b
            /\ transport' = d.tr
            /\ chan_log' = [chan_log EXCEPT
                    !.invoked = {}, !.attempt = d.attempt, !.steps = <<>>,
                    !.gens = IF d.registered THEN @ + 1 ELSE @,
                    !.rc = -1, !.relogin = ~fast /\ ~Connected(cloud_base),
                    !.subscribed = FALSE, !.kind = "none", !.escaped = FALSE,
                    !.nil_callback = nil # {}, !.result = d.result,
                    !.info = ~fast /\ b1.logged_in]
    /\ last_op' = "device_connect"
    /\ UNCHANGED <<auth, decoder, cmd, handler, workerVars, now, call_log, consec_fails>>

\* DreameMowerCloudDevice.disconnect() called by the platform, lines 72-86
DeviceDisconnect ==
    /\ mqtt' = ClearCallbacks(TeardownClient(mqtt))
    /\ queue' = PoisonedQueue(thread, queue)
    /\ cloud_base' = BaseDisconnected(cloud_base)
    /\ chan_log' = [chan_log EXCEPT
            !.invoked = {}, !.attempt = "none", !.steps = TeardownSteps(mqtt),
            !.dead_gen = chan_log.gens,
            !.rc = -1, !.relogin = FALSE, !.subscribed = FALSE, !.kind = "none",
                        !.escaped = FALSE, !.nil_callback = FALSE,
                        !.result = "none", !.info = FALSE]
    /\ last_op' = "device_disconnect"
    /\ UNCHANGED <<auth, decoder, cmd, handler, thread, current, worker_log, transport, now, call_log,
                   consec_fails>>

\* the transport answers a CONNECT that is in flight
OnConnect ==
    /\ transport.inflight
    /\ \E rc \in ConnectCodes :
        \E r \in {OnConnectHandler(mqtt, cloud_base, rc)} :
            /\ mqtt' = r.m
            /\ chan_log' = [chan_log EXCEPT
                    !.invoked = r.invoked, !.attempt = "none", !.steps = <<>>,
                    !.rc = rc, !.relogin = FALSE, !.subscribed = r.subscribed, !.kind = "none",
                        !.escaped = FALSE, !.nil_callback = FALSE,
                        !.result = "none", !.info = FALSE]
    /\ transport' = [transport EXCEPT !.inflight = FALSE]
    /\ last_op' = "on_connect"
    /\ UNCHANGED <<auth, decoder, cmd, handler, cloud_base, workerVars, now, call_log, consec_fails>>

\* the transport of a client signals a disconnect
OnDisconnect ==
    /\ transport.clients > 0
    /\ \E rc \in DisconnectCodes, reconnect_raises \in BOOLEAN :
       \E login \in ChannelLogins(ReloginNeeded(mqtt, cloud_base, rc)) :
       \E b1 \in {IF ReloginNeeded(mqtt, cloud_base, rc)
                  THEN connect(cloud_base, now, login).base ELSE cloud_base} :
       \E r \in {OnDisconnectHandler(mqtt, b1, transport, rc, reconnect_raises)} :
            /\ mqtt' = r.m
            /\ cloud_base' = b1
            /\ transport' = r.tr
            /\ chan_log' = [chan_log EXCEPT
                    !.invoked = r.invoked, !.attempt = r.attempt, !.steps = <<>>,
                    !.rc = rc, !.subscribed = FALSE, !.kind = "none", !.escaped = FALSE,
                    !.relogin = ReloginNeeded(mqtt, cloud_base, rc)]
    /\ last_op' = "on_disconnect"
    /\ UNCHANGED <<auth, decoder, cmd, handler, workerVars, now, call_log, consec_fails>>

\* the transport of a client delivers a message
OnMessage ==
    /\ transport.clients > 0
    /\ \E kind \in MessageKinds :
       \E callback_raises \in IfReached(kind = "data" /\ mqtt.callbacks # 0) :
        \E r \in {OnMessageHandler(mqtt, kind, callback_raises)} :
            /\ mqtt' = r.m
            /\ chan_log' = [chan_log EXCEPT
                    !.invoked = r.invoked, !.attempt = "none", !.steps = <<>>,
                    !.rc = -1, !.relogin = FALSE, !.subscribed = FALSE,
                    !.kind = kind, !.escaped = r.escaped, !.nil_callback = FALSE,
                        !.result = "none", !.info = FALSE]
    /\ last_op' = "on_message"
    /\ UNCHANGED <<auth, decoder, cmd, handler, cloud_base, workerVars, transport, now, call_log, consec_fails>>

\* the delay of the pending reconnect timer passes
TimerExpire ==
    /\ mqtt.timer_waiting
    /\ ~handler.due
    /\ mqtt' = TimerExpired(mqtt)
    /\ handler' = [handler EXCEPT !.due = TRUE]
    /\ chan_log' = [chan_log EXCEPT
            !.invoked = {}, !.attempt = "none", !.steps = <<>>,
            !.rc = -1, !.relogin = FALSE, !.subscribed = FALSE, !.kind = "none",
                        !.escaped = FALSE, !.nil_callback = FALSE,
                        !.result = "none", !.info = FALSE]
    /\ last_op' = "timer_expire"
    /\ UNCHANGED <<auth, decoder, cmd, cloud_base, workerVars, transport, now, call_log, consec_fails>>

\* the task of an expired reconnect timer runs
TimerFire ==
    /\ handler.due
    /\ handler' = [handler EXCEPT !.due = FALSE]
    /\ \E reconnect_raises \in BOOLEAN :
        \E r \in {TimerTaskHandler(mqtt, transport, reconnect_raises)} :
            /\ mqtt' = r.m
            /\ transport' = r.tr
            /\ chan_log' = [chan_log EXCEPT
                    !.invoked = {}, !.attempt = r.attempt, !.steps = <<>>,
                    !.rc = -1, !.relogin = FALSE, !.subscribed = FALSE, !.kind = "none",
                        !.escaped = FALSE, !.nil_callback = FALSE,
                        !.result = "none", !.info = FALSE]
    /\ last_op' = "timer_task"
    /\ UNCHANGED <<auth, decoder, cmd, cloud_base, workerVars, now, call_log, consec_fails>>

\* _mqtt_reconnect_timer_task, lines 101-108, on the thread of the timer: the
\* cancel and the checks, up to the point where the task has decided to
\* reconnect.  Nothing in the class keeps the other handlers from running
\* between this step and the next one.
TimerTaskCheck ==
    /\ handler.due
    /\ handler.at = "none"
    /\ \E m1 \in {TimerCancel(mqtt)} :
        IF ~TimerTaskNeeded(m1)
        THEN /\ mqtt' = m1
             /\ handler' = [handler EXCEPT !.due = FALSE]
        ELSE /\ mqtt' = [m1 EXCEPT !.connecting = TRUE]
             /\ handler' = [due |-> FALSE, at |-> "reconnect",
                            client |-> m1.client, connected |-> m1.connected]
    /\ chan_log' = [chan_log EXCEPT
            !.invoked = {}, !.attempt = "none", !.steps = <<>>,
            !.rc = -1, !.relogin = FALSE, !.subscribed = FALSE, !.kind = "none",
                        !.escaped = FALSE, !.nil_callback = FALSE,
                        !.result = "none", !.info = FALSE]
    /\ last_op' = "timer_check"
    /\ UNCHANGED <<auth, decoder, cmd, cloud_base, workerVars, transport, now, call_log, consec_fails>>

\* _mqtt_reconnect_timer_task, lines 109-116: the reconnect the task decided
\* on, made on whatever the channel is by now.  Without a client the call
\* raises (AttributeError on None) and is handled like any failed attempt;
\* the timer of line 115 is started without cancelling the one referred to.
TimerTaskReconnect ==
    /\ handler.at = "reconnect"
    /\ Len(mqtt.timers) < MaxTimers
    /\ \E reconnect_raises \in IF mqtt.client THEN BOOLEAN ELSE {TRUE} :
        /\ mqtt' = IF reconnect_raises THEN TimerArm(mqtt) ELSE mqtt
        /\ transport' = IF mqtt.client THEN Attempted(transport, reconnect_raises)
                        ELSE transport
    /\ handler' = [handler EXCEPT !.at = "none"]
    /\ chan_log' = [chan_log EXCEPT
            !.invoked = {}, !.attempt = IF mqtt.client THEN "reconnect" ELSE "none",
            !.steps = <<>>, !.rc = -1, !.relogin = FALSE, !.subscribed = FALSE, !.kind = "none",
                        !.escaped = FALSE, !.nil_callback = FALSE,
                        !.result = "none", !.info = FALSE]
    /\ last_op' = "timer_task"
    /\ UNCHANGED <<auth, decoder, cmd, cloud_base, workerVars, now, call_log, consec_fails>>

\* _mqtt_reconnect_timer_task, lines 101-105, on the thread of the timer: the
\* cancel and the two tests that end the task; past them the task goes on
\* with what it read, whatever the other threads do in between
TimerTaskRead ==
    /\ handler.due
    /\ handler.at = "none"
    /\ \E m1 \in {TimerCancel(mqtt)} :
        /\ mqtt' = m1
        /\ handler' = IF TimerTaskNeeded(m1)
                      THEN [due |-> FALSE, at |-> "mark",
                            client |-> m1.client, connected |-> m1.connected]
                      ELSE [handler EXCEPT !.due = FALSE]
    /\ chan_log' = [chan_log EXCEPT
            !.invoked = {}, !.attempt = "none", !.steps = <<>>,
            !.rc = -1, !.relogin = FALSE, !.subscribed = FALSE, !.kind = "none",
                        !.escaped = FALSE, !.nil_callback = FALSE,
                        !.result = "none", !.info = FALSE]
    /\ last_op' = "timer_check"
    /\ UNCHANGED <<auth, decoder, cmd, cloud_base, workerVars, transport, now, call_log, consec_fails>>

\* _mqtt_reconnect_timer_task, lines 106-108: the connecting flag is set
\* unless it is set already
TimerTaskMark ==
    /\ handler.at = "mark"
    /\ mqtt' = IF ~mqtt.connecting THEN [mqtt EXCEPT !.connecting = TRUE] ELSE mqtt
    /\ handler' = [handler EXCEPT !.at = "reconnect"]
    /\ last_op' = "timer_mark"
    /\ UNCHANGED <<auth, decoder, cmd, cloud_base, workerVars, transport, chan_log, now,
                   call_log, consec_fails>>

\* the delay passes of a waiting timer that _mqtt_reconnect_timer no longer
\* refers to (line 115 replaced the reference without a cancel)
StrayTimerExpire ==
    /\ Len(mqtt.timers) > (IF mqtt.timer_waiting THEN 1 ELSE 0)
    /\ ~handler.due
    /\ mqtt' = [mqtt EXCEPT !.timers = Tail(@)]
    /\ handler' = [handler EXCEPT !.due = TRUE]
    /\ chan_log' = [chan_log EXCEPT
            !.invoked = {}, !.attempt = "none", !.steps = <<>>,
            !.rc = -1, !.relogin = FALSE, !.subscribed = FALSE, !.kind = "none",
                        !.escaped = FALSE, !.nil_callback = FALSE,
                        !.result = "none", !.info = FALSE]
    /\ last_op' = "timer_expire"
    /\ UNCHANGED <<auth, decoder, cmd, cloud_base, workerVars, transport, now, call_log, consec_fails>>

----------------------------------------------------------------------------
(* The session read by one thread while another thread logs in *)

\* the threads that read the session: request() (lines 226, 233-240) in the
\* HTTP domain, the disconnect handler of the channel
\* (cloud_device.py lines 124-125, 169) in the real-time domain
Readers == {"http", "realtime"}

\* connect(), lines 115-119, for a 200 response with token and TTL: the token
\* and the refresh token are stored
ConnectStoreKey ==
    /\ auth.at = "none"
    /\ \E ttl \in TTLs :
        auth' = [auth EXCEPT !.at = "key_stored", !.ttl = ttl]
    /\ cloud_base' = [cloud_base EXCEPT !.logged_in = FALSE,
                            !.key = NextToken(cloud_base),
                            !.secondary_key = RefreshToken]
    /\ last_op' = "store_key"
    /\ UNCHANGED <<decoder, cmd, handler, workerVars, chanVars, now, call_log,
                   consec_fails>>

\* connect(), lines 120-126 and the end of connect(): the expiry is stored
\* and the session is marked logged in
ConnectStoreExpire ==
    /\ auth.at = "key_stored"
    /\ \E b \in {[cloud_base EXCEPT !.key_expire = KeyExpire(now, auth.ttl),
                                     !.logged_in = TRUE, !.fail_count = 0,
                                     !.http_api_connected = TRUE]} :
        /\ cloud_base' = b
        /\ auth' = [auth EXCEPT !.at = "none",
                                !.stored = @ \cup {<<b.key, b.key_expire>>}]
    /\ last_op' = "store_expire"
    /\ UNCHANGED <<decoder, cmd, handler, workerVars, chanVars, now, call_log,
                   consec_fails>>

\* a thread of either domain reads the token and the expiry of the session
SessionRead ==
    /\ \E d \in Readers :
        auth' = [auth EXCEPT !.seen = <<cloud_base.key, cloud_base.key_expire>>,
                            !.reader = d]
    /\ last_op' = "session_read"
    /\ UNCHANGED <<decoder, cmd, handler, cloud_base, workerVars, chanVars, now,
                   call_log, consec_fails>>

----------------------------------------------------------------------------
(* Actions of the outbound commands *)

\* answers of the cloud to the call of send(): every attempt answered at
\* once, or every attempt failing in transport
CommandCalls(b, t, retry_count) ==
    {c \in CallInputs(b, t, {retry_count}, {FALSE}) : c.excs \in {0, retry_count + 1}}

\* send(), lines 377-393: caller c enters through an entry point and builds
\* the payload with the current request id; then it waits for the exchange
SendBegin(c) ==
    /\ cmd.pending[c] = <<>>
    /\ Len(cmd.issued) < MaxCommands
    /\ \E entry \in EntryPoints :
        cmd' = [cmd EXCEPT !.pending[c] = [entry |-> entry, id |-> cloud_base.id],
                           !.issued = Append(@, cloud_base.id)]
    /\ last_op' = "send_begin"
    /\ UNCHANGED <<auth, decoder, cloud_base, workerVars, chanVars, now, call_log, consec_fails,
                   handler>>

\* send(), lines 381-429: the exchange of caller c ends; unless it raised,
\* the request id is incremented (line 395), then the response is classified
SendEnd(c) ==
    /\ cmd.pending[c] # <<>>
    /\ \E call \in CommandCalls(cloud_base, now, EntryRetryCount(cmd.pending[c].entry)) :
       \E r \in {request(cloud_base, now, call)} :
       \E code \in IF r.log.outcome = "value" THEN VendorCodes ELSE {0} :
       \E payload \in IF r.log.outcome = "value" /\ code = 0 THEN Payloads ELSE {"none"} :
       LET response == IF r.log.outcome = "value" THEN "object" ELSE "none"
           class == IF r.log.outcome = "raised" THEN "decode_error"
                    ELSE SendClass(response, code, payload)
       IN  /\ cloud_base' = IF r.log.outcome = "raised" THEN r.base
                            ELSE [r.base EXCEPT !.id = @ + 1]
           /\ mqtt' = ReachableAfter(mqtt, class)
           /\ cmd' = [cmd EXCEPT
                    !.pending[c] = <<>>,
                    !.log = [caller |-> c, entry |-> cmd.pending[c].entry,
                             id |-> cmd.pending[c].id,
                             response |-> IF r.log.outcome = "raised" THEN "raised"
                                          ELSE response,
                             code |-> code, payload |-> payload, class |-> class,
                             reaches |-> EntryResult(cmd.pending[c].entry, class)]]
    /\ last_op' = "send_end"
    /\ UNCHANGED <<auth, decoder, workerVars, transport, chan_log, now, call_log, consec_fails,
                   handler>>

----------------------------------------------------------------------------
(* Specifications *)

CommandNext ==
    \/ \E c \in Callers : SendBegin(c)
    \/ \E c \in Callers : SendEnd(c)

SpecCommand == Init /\ [][CommandNext]_vars


\* The channel after a first connect() that logged in and created the
\* client (DeviceConnect from Init), and, if `sent`, after a get_properties
\* that the cloud answered with the device-offline code (SendBegin(1),
\* SendEnd(1)), which marks the device unreachable.
MessageInit ==
    \E sent \in BOOLEAN :
        /\ cloud_base = [BaseInit EXCEPT
                !.key = NextToken(BaseInit), !.secondary_key = RefreshToken,
                !.key_expire = KeyExpire(StartTime, KeyExpireMargin + 1),
                !.logged_in = TRUE, !.http_api_connected = TRUE,
                !.id = IF sent THEN FirstId + 1 ELSE FirstId]
        /\ mqtt = [MqttInit EXCEPT !.client = TRUE, !.callbacks = 1,
                                   !.client_key = NextToken(BaseInit),
                                   !.device_reachable = ~sent]
        /\ transport = [clients |-> 1, inflight |-> TRUE]
        /\ chan_log = [ChanLogInit EXCEPT !.attempt = "connect", !.gens = 1,
                                          !.relogin = TRUE]
        /\ cmd = IF sent
                 THEN [CmdInit EXCEPT !.issued = <<FirstId>>,
                        !.log = [id |-> FirstId, caller |-> 1,
                                 entry |-> "get_properties", response |-> "object",
                                 code |-> DeviceOfflineCode, payload |-> "none",
                                 class |-> "timeout_error",
                                 reaches |-> "timeout_error"]]
                 ELSE CmdInit
        /\ last_op = IF sent THEN "send_end" ELSE "device_connect"
        /\ thread = "none" /\ queue = <<>> /\ current = <<>>
        /\ now = StartTime
        /\ call_log = NoCall
        /\ consec_fails = 0
        /\ worker_log = [submitted |-> 0, delivered |-> <<>>, starts |-> 0,
                         exit_cause |-> "none"]
        /\ handler = HandlerInit
        /\ auth = AuthInit
        /\ decoder = DecoderInit

\* connect() and disconnect() of the platform, and the broker's answers
ConnectNext == DeviceConnect \/ DeviceDisconnect \/ OnConnect
SpecConnect == Init /\ [][ConnectNext]_vars

\* inbound messages on that channel, and the platform's connect() and
\* disconnect()
MessageNext == OnMessage \/ DeviceConnect \/ DeviceDisconnect
SpecMessage == MessageInit /\ [][MessageNext]_vars

\* the commands of one caller together with the inbound messages, from the
\* state after a first connect()
ReachableNext == SendBegin(1) \/ SendEnd(1) \/ OnMessage
SpecReachable == MessageInit /\ [][ReachableNext]_vars

\* connect() on one thread, readers of the session on others, time passing
SwapNext == ConnectStoreKey \/ ConnectStoreExpire \/ SessionRead \/ Tick
SpecSwap == Init /\ [][SwapNext]_vars

SessionNext == Authenticate \/ ApiCall \/ Tick \/ BaseDisconnect

SpecSession == Init /\ [][SessionNext]_vars

RetryNext == Authenticate \/ ApiCallRetries \/ Tick

SpecRetry == Init /\ [][RetryNext]_vars

WorkerNext == ScheduleAsync \/ WorkerGet \/ WorkerExec \/ BaseDisconnect

SpecWorker == Init /\ [][WorkerNext]_vars

\* the worker with the session connecting again after a disconnect.  The
\* worker is a thread of its own (line 203): it takes the next item when one
\* is queued and finishes the call it is making, whatever the callers do.
WorkerLiveNext == WorkerNext \/ Authenticate
SpecWorkerLive ==
    Init /\ [][WorkerLiveNext]_vars /\ WF_vars(WorkerGet) /\ WF_vars(WorkerExec)

ChannelNext ==
    \/ DeviceConnect \/ DeviceDisconnect
    \/ OnConnect \/ OnDisconnect \/ OnMessage \/ TimerExpire \/ TimerFire
SpecChannel == Init /\ [][ChannelNext]_vars

\* The channel with the handlers on their own threads: the transport's
\* network thread (OnConnect, OnDisconnect), the platform's thread
\* (DeviceConnect, DeviceDisconnect) and the thread of the reconnect timer,
\* whose task is taken in two steps.
InterleaveNext ==
    \/ DeviceConnect \/ DeviceDisconnect
    \/ OnConnect \/ OnDisconnect
    \/ TimerExpire \/ StrayTimerExpire
    \/ TimerTaskCheck \/ TimerTaskReconnect
SpecInterleave == Init /\ [][InterleaveNext]_vars

\* The same threads, with the task of the reconnect timer taken statement
\* by statement: its tests, its write of the connecting flag, its reconnect.
FlagRaceNext ==
    \/ DeviceConnect
    \/ OnConnect \/ OnDisconnect
    \/ TimerExpire
    \/ TimerTaskRead \/ TimerTaskMark \/ TimerTaskReconnect
SpecFlagRace == Init /\ [][FlagRaceNext]_vars

----------------------------------------------------------------------------
(* Actions of the property handlers: property 2:51 *)

\* the payloads of exactly one of the seven shapes of property 2:51
ShapePayloads(variant) ==
    CASE variant = "dnd_schedule" ->
            {Dict251(PyInt(600), PyInt(900), PyInt(1), Absent, Absent, Absent),
             Dict251(PyInt(480), PyInt(1200), PyInt(0), Absent, Absent, Absent)}
      [] variant = "time_sync" ->
            {Dict251(Absent, Absent, Absent, PyNum(1757011214), PyStr("Europe/Rome"), Absent)}
      [] variant = "charging_schedule" ->
            {Dict251(Absent, Absent, Ints(<<15, 95, 0, 0, 1080, 480>>), Absent, Absent, Absent)}
      [] variant = "fifth_variant" ->
            {Dict251(Absent, Absent, Ints(<<1, 1, 0, 0>>), Absent, Absent, Absent)}
      [] variant = "third_variant" ->
            {Dict251(Absent, Absent, Ints(<<3198, 9591, 0>>), Absent, Absent, Absent)}
      [] variant = "fourth_variant" ->
            {Dict251(Absent, Absent, PyInt(0), Absent, Absent, Absent)}
      [] variant = "sixth_variant" ->
            {Dict251(Absent, Absent, Absent, Absent, Absent, PyInt(2))}
      [] OTHER -> {}
SevenShapes == UNION {ShapePayloads(v) : v \in Property51Type}

\* a payload of one shape carrying keys of another
ExtraKeyPayloads ==
    {Dict251(PyInt(600), PyInt(900), PyInt(1), PyNum(1757011214), PyStr("Europe/Rome"), Absent),
     Dict251(Absent, Absent, Ints(<<15, 95, 0, 0, 1080, 480>>), PyNum(1757011214), PyStr("Europe/Rome"), Absent),
     Dict251(Absent, Absent, PyInt(0), Absent, Absent, PyInt(2))}

\* payloads of no shape, and payloads whose values do not convert
OddPayloads ==
    {Dict251(Absent, Absent, Absent, Absent, Absent, Absent),
     Dict251(PyInt(600), PyInt(900), Absent, Absent, Absent, Absent),
     Dict251(Absent, Absent, Ints(<<1, 2, 3, 4, 5>>), Absent, Absent, Absent),
     Dict251(Absent, Absent, PyStr("on"), Absent, Absent, Absent),
     Dict251(Absent, Absent, Absent, Absent, Absent, PyStr("a")),
     Dict251(PyStr("early"), PyInt(900), PyInt(1), Absent, Absent, Absent),
     [NoPayload251 EXCEPT !.form = "bad_literal"],
     [NoPayload251 EXCEPT !.form = "other"]}

\* a dict arriving as a string, the way MQTT delivers it
LiteralPayloads ==
    {[Dict251(PyInt(600), PyInt(900), PyBool(TRUE), Absent, Absent, Absent)
        EXCEPT !.form = "literal"]}

Payloads251 ==
    SevenShapes \cup ExtraKeyPayloads \cup OddPayloads \cup LiteralPayloads

\* handle_property_update(2, 51, value, notify_callback)
DndTimeUpdate(P) ==
    \E p \in P :
      \E r \in {HandleDndTime(decoder.dnd_time, decoder.scheduling, p)} :
        /\ decoder' = [decoder EXCEPT
                          !.dnd_time = r.h, !.scheduling = r.s,
                          !.source = "2:51", !.payload = p,
                          !.before = Readable251(decoder.dnd_time, decoder.scheduling),
                          !.events = r.events, !.ok = r.ok, !.raised = "none"]
        /\ last_op' = "property_2_51"
        /\ UNCHANGED <<auth, cmd, handler, cloud_base, workerVars, chanVars, now,
                       call_log, consec_fails>>

SchedulingNext == DndTimeUpdate(Payloads251)
SpecScheduling == Init /\ [][SchedulingNext]_vars

----------------------------------------------------------------------------
(* Actions of the property handlers: property 1:1 *)

\* the elements a 1:1 array is made of here: a mode at p6, a temperature at
\* p16, zero elsewhere; an element may be null or a text int() rejects
Frame(n, first, last, mode, temp) ==
    [form |-> "list",
     elems |-> [i \in 1..n |->
                  CASE i = 1 -> PyInt(first)
                    [] i = FrameLength -> PyInt(last)
                    [] i = 8 -> mode
                    [] i = 18 -> temp
                    [] OTHER -> PyInt(0)]]

\* arrays of 19, 20 and 21 elements with and without the sentinels, and a
\* value that is no list
Frames ==
    {Frame(n, first, last, mode, temp) :
        n \in {FrameLength - 1, FrameLength, FrameLength + 1},
        first \in {Sentinel, 0}, last \in {Sentinel, 0},
        mode \in {PyInt(0), PyInt(4), Absent},
        temp \in {PyInt(215), PyInt(250), PyStr("n/a")}}
    \cup {[form |-> "other", elems |-> <<>>]}

\* Property11Handler.parse_value(value)
Property11Update ==
    \E v \in Frames :
      \E r \in {Property11Parse(decoder.property_1_1, v)} :
        /\ decoder' = [decoder EXCEPT
                          !.property_1_1 = r.rec,
                          !.source = "1:1", !.payload = v,
                          !.before = decoder.property_1_1,
                          !.events = <<>>, !.ok = r.ok, !.raised = "none"]
        /\ last_op' = "property_1_1"
        /\ UNCHANGED <<auth, cmd, handler, cloud_base, workerVars, chanVars, now,
                       call_log, consec_fails>>

StatusNext == Property11Update
SpecStatus == Init /\ [][StatusNext]_vars

----------------------------------------------------------------------------
(* Actions of the property handlers: the composite decodes *)

\* argument lists of a mission completion event: the full event, parts of
\* it in either order, the charging pairs, a value that does not
\* convert,, an unknown piid and arguments that lack a key
MissionEvents ==
    {<<>>,
     <<Arg(1, PyInt(100))>>,
     <<Arg(1, PyInt(100)), Arg(2, PyInt(45)), Arg(3, PyInt(2550)),
       Arg(7, PyInt(1)), Arg(8, PyInt(1759318403)),
       Arg(9, PyStr("ali_dreame/2025/10/01/1.json")), Arg(11, PyInt(1)),
       Arg(60, PyInt(-1))>>,
     <<Arg(9, PyStr("ali_dreame/2025/10/01/1.json")), Arg(8, PyInt(1759318403))>>,
     <<Arg(1, PyInt(100)), Arg(2, PyInt(183)), Arg(8, PyInt(1759314580)),
       Arg(13, PyList(<<Ints(<<1759318403, 24>>), Ints(<<1759328060, 24>>)>>))>>,
     <<Arg(13, PyList(<<Ints(<<1759318403, 24>>), Ints(<<1759320000>>)>>)),
       Arg(3, PyInt(2550))>>,
     <<Arg(2, PyInt(45)), Arg(1, PyStr("done"))>>,
     <<Arg(1, PyInt(100)), Arg(8, PyNum(1759318403))>>,
     <<Arg(2, PyInt(45)), Arg(99, PyInt(0))>>,
     <<Arg(99, PyInt(0)), Arg(2, PyInt(45))>>,
     <<Arg(1, Absent), Arg(2, PyInt(50))>>,
     <<Arg(2, PyInt(50)), Arg(1, Absent)>>,
     <<<<None, PyInt(100)>>>>,
     <<Arg(2, PyInt(50)), <<None, PyInt(100)>>>>}

\* handle_event(4, 1, arguments, notify_callback)
MissionCompletionEvent ==
    \E args \in MissionEvents :
      \E r \in {ParseMissionCompletionEvent(args)} :
        /\ decoder' = [decoder EXCEPT
                          !.mission = r.rec,
                          !.source = "4:1", !.payload = args,
                          !.before = decoder.mission,
                          !.events = r.events, !.ok = r.ok, !.raised = "none"]
        /\ last_op' = "event_4_1"
        /\ UNCHANGED <<auth, cmd, handler, cloud_base, workerVars, chanVars, now,
                       call_log, consec_fails>>

\* handle_property_update(5, 104, value, notify_callback): the update of
\* the task status inside `try: ... except Exception: return False`
TaskStatusUpdate ==
    \E value \in {PyInt(7), PyInt(13), PyNum(7), PyInt(99), PyStr("idle"), Absent,
                  PyInf} :
      \E r \in {HandleTaskStatus(decoder.task_status_code, value)} :
        /\ decoder' = [decoder EXCEPT
                          !.task_status_code = r.code,
                          !.source = "5:104", !.payload = value,
                          !.before = decoder.task_status_code,
                          !.events = r.events,
                          !.ok = (r.ok /\ r.exc = "none"),
                          !.raised = ExceptException(r.exc)]
        /\ last_op' = "property_5_104"
        /\ UNCHANGED <<auth, cmd, handler, cloud_base, workerVars, chanVars, now,
                       call_log, consec_fails>>

\* handle_property_update(2, 51, value, notify_callback) with the DND
\* schedule and the time sync, the variants that have per-attribute events
DndScheduleUpdate ==
    DndTimeUpdate(ShapePayloads("dnd_schedule") \cup ShapePayloads("time_sync"))

CompositeNext == MissionCompletionEvent \/ TaskStatusUpdate \/ DndScheduleUpdate
SpecComposite == Init /\ [][CompositeNext]_vars

\* the three entry points with what they decode and what they cannot
EntryPointsNext ==
    \/ MissionCompletionEvent
    \/ TaskStatusUpdate
    \/ DndTimeUpdate(OddPayloads \cup LiteralPayloads)
SpecEntryPoints == Init /\ [][EntryPointsNext]_vars

----------------------------------------------------------------------------
(* Actions of the property handlers: the device code 2:2 *)

\* the models a handler is switched between: none, the A1 and MOVA models
\* and one with no registry of its own
Models ==
    {None, Some("dreame.mower.p2255"), Some("dreame.mower.g2422"),
     Some("mova.mower.g2405b"), Some("mova.mower.g2405c"),
     Some("dreame.mower.g2408")}

\* device code values: codes every registry knows, codes the registries
\* differ on, codes none knows, and values that are no integer
DeviceCodeValues ==
    {PyInt(0), PyInt(1), PyInt(19), PyInt(28), PyInt(53), PyInt(70), PyInt(73),
     PyInt(999), PyInt(-1), PyNum(28), PyNum(999), PyStr("invalid"), Absent}

\* handler.set_model(model)
DeviceCodeSetModel ==
    \E model \in Models :
        /\ decoder' = [decoder EXCEPT
                          !.device_code = SetModel(decoder.device_code, model),
                          !.source = "set_model", !.payload = model,
                          !.before = decoder.device_code,
                          !.events = <<>>, !.ok = TRUE, !.raised = "none"]
        /\ last_op' = "set_model"
        /\ UNCHANGED <<auth, cmd, handler, cloud_base, workerVars, chanVars, now,
                       call_log, consec_fails>>

\* handler.parse_value(value)
DeviceCodeUpdate ==
    \E value \in DeviceCodeValues :
      \E r \in {DeviceCodeParseValue(decoder.device_code, value)} :
        /\ decoder' = [decoder EXCEPT
                          !.device_code = r.h,
                          !.source = "2:2", !.payload = value,
                          !.before = decoder.device_code,
                          !.events = <<>>, !.ok = r.ok, !.raised = r.exc]
        /\ last_op' = "property_2_2"
        /\ UNCHANGED <<auth, cmd, handler, cloud_base, workerVars, chanVars, now,
                       call_log, consec_fails>>

DeviceCodeNext == DeviceCodeSetModel \/ DeviceCodeUpdate
SpecDeviceCode == Init /\ [][DeviceCodeNext]_vars

----------------------------------------------------------------------------
(* Claims about property 2:51, checked under SpecScheduling *)

\* the dict the last 2:51 value denotes
LastDict == IF decoder.payload.form = "literal"
            THEN ParsePythonLiteral(decoder.payload) ELSE decoder.payload
\* the last 2:51 value was a dict or spelled one
LastWasDict == decoder.source = "2:51" /\ decoder.payload.form \in {"dict", "literal"}

\* the variant of the first shape, in the order of the claim, that matches d
\* when `matches(keys)` tells whether d's key set fits the shape's keys
FirstShape(d, matches(_)) ==
    LET list(n) == matches({"value"}) /\ IsInstanceList(d.value)
                   /\ Len(d.value.elems) = n
    IN  IF matches({"start", "end", "value"}) /\ IsInstanceInt(d.value)
        THEN "dnd_schedule"
        ELSE IF matches({"time", "tz"}) THEN "time_sync"
        ELSE IF list(6) THEN "charging_schedule"
        ELSE IF list(4) THEN "fifth_variant"
        ELSE IF list(3) THEN "third_variant"
        ELSE IF matches({"value"}) /\ IsInstanceInt(d.value) THEN "fourth_variant"
        ELSE IF matches({"type"}) /\ IsInstanceInt(d.type) THEN "sixth_variant"
        ELSE "unknown"

Variants251 == Property51Type \ {"unknown"}
\* the notifications of the last update that carry the data of a variant
VariantEvents ==
    {i \in DOMAIN decoder.events :
        decoder.events[i].name \in {VariantEventName(v) : v \in Variants251}}
\* the per-attribute notifications of the last update that carry None for name
ClearedEventsFor(name) ==
    {i \in DOMAIN decoder.events :
        decoder.events[i].name = name /\ decoder.events[i].value = None}

VariantFields(v) ==
    CASE v = "charging_schedule" ->
            {"auto_recharge_percent", "resume_percent", "enabled",
             "start_minute", "end_minute"}
      [] v = "third_variant" -> {"value1", "value2", "value3"}
      [] v = "fourth_variant" -> {"value"}
      [] v = "fifth_variant" -> {"value1", "value2", "value3", "value4"}
      [] v = "sixth_variant" -> {"type"}

\* C28 (as claimed): whenever a 2:51 update makes a previously decoded field
\* of another variant absent, exactly one notification carrying None is
\* emitted for that field during that update, for the fields of all seven
\* variants; and no such notification is emitted for a field that was absent
\* already.
C28_ClearedNotifiedOnce ==
    (decoder.source = "2:51" /\ decoder.ok) =>
        /\ \A f \in DOMAIN decoder.scheduling :
              Cardinality(ClearedEventsFor(f)) =
                 IF decoder.before.s[f] # None /\ decoder.scheduling[f] = None
                 THEN 1 ELSE 0
        /\ \A v \in Variants251 \ {"dnd_schedule", "time_sync"} :
              \A f \in VariantFields(v) :
                 (/\ decoder.before.data[v] # None
                  /\ NotificationData(decoder.dnd_time, v) = None)
                    => Cardinality(ClearedEventsFor(f)) = 1

----------------------------------------------------------------------------
(* Claims about property 1:1, checked under SpecStatus *)

\* the array handed in last has another length than 20, or its first or its
\* twentieth element is not the sentinel (or it is no list at all)
LastFrameInvalid ==
    LET v == decoder.payload
    IN  \/ v.form # "list"
        \/ Len(v.elems) # FrameLength
        \/ v.elems[1] # PyInt(Sentinel)
        \/ v.elems[FrameLength] # PyInt(Sentinel)

\* C29: decoding the array of property 1:1 fails whenever its length is not
\* 20 or its first or last element is not the sentinel, and such a failed
\* decode sets no field: every decoded field keeps the value it had before
\* the call.
C29_InvalidFrameSetsNothing ==
    (decoder.source = "1:1" /\ LastFrameInvalid) =>
        /\ ~decoder.ok
        /\ decoder.property_1_1 = decoder.before

\* an array of 20 elements with a wrong last sentinel was refused after an
\* earlier array had been decoded
C29_Witness ==
    /\ decoder.source = "1:1"
    /\ Len(decoder.payload.elems) = FrameLength
    /\ decoder.payload.elems[1] = PyInt(Sentinel)
    /\ decoder.payload.elems[FrameLength] # PyInt(Sentinel)
    /\ decoder.payload.elems[8] = PyInt(4)
    /\ ~decoder.ok
    /\ decoder.before.mode = Some(0)
    /\ decoder.before.temperature = Some([num |-> 215, den |-> 10])

----------------------------------------------------------------------------
(* Claims about the composite decodes, checked under SpecComposite *)

\* the notifications of the last decode that carry the whole decoded value
AggregateEvents ==
    {i \in DOMAIN decoder.events :
        decoder.events[i].name \in
            {"mission_completion_event", "task_status"}
            \cup {VariantEventName(v) : v \in Property51Type \ {"unknown"}}}

\* C30 (as claimed): every successful composite decode emits its aggregate
\* event before any of its individual per-field events, within the same
\* decode pass.
C30_AggregateBeforeLegacy ==
    (decoder.source # "none" /\ decoder.ok) =>
        /\ Cardinality(AggregateEvents) = 1
        /\ \A i \in AggregateEvents :
              \A j \in DOMAIN decoder.events \ AggregateEvents : i < j

\* every order the arguments of an event can be listed in
RECURSIVE Orderings(_)
Orderings(args) ==
    IF args = <<>> THEN {<<>>}
    ELSE UNION {{<<args[i]>> \o q :
                   q \in Orderings([j \in 1..(Len(args) - 1) |->
                                      IF j < i THEN args[j] ELSE args[j + 1]])} :
                i \in DOMAIN args}

\* C31 (as claimed): the result of decoding a mission-completion payload does
\* not depend on the order of its fields: every permutation of the argument
\* list decoded last yields the decoded state the handler is in, and with it
\* the same charging_event_count and the same total charging minutes.
C31_OrderIndependent ==
    decoder.source = "4:1" =>
        \A q \in Orderings(decoder.payload) :
            LET r == ParseMissionCompletionEvent(q)
            IN  /\ r.rec = decoder.mission
                /\ ChargingEventCount(r.rec) = ChargingEventCount(decoder.mission)
                /\ TotalChargingTimeMinutes(r.rec)
                       = TotalChargingTimeMinutes(decoder.mission)

\* the arguments of the event decoded last that make the decode fail by
\* themselves: no "piid", no "value", or a piid the handler does not know
MalformedArguments ==
    {i \in DOMAIN decoder.payload :
        \/ decoder.payload[i][1] = None
        \/ decoder.payload[i][2] = Absent
        \/ decoder.payload[i][1][1] \notin {1, 2, 3, 7, 8, 9, 11, 13, 14, 15, 60}}

\* C36 (as claimed): a mission-completion decode that fails on an unknown
\* piid, a missing piid or a missing value anywhere in the argument list
\* returns False, emits no notification and leaves no field of the failed
\* payload set.
C36_FailedDecodeLeavesNothing ==
    (decoder.source = "4:1" /\ MalformedArguments # {}) =>
        /\ ~decoder.ok
        /\ decoder.events = <<>>
        /\ decoder.mission = MissionInit

\* C35: a task-status (5:104) update whose code is not in the known mapping
\* returns False, leaves the stored task status as it was and emits no
\* notification.
C35_UnknownTaskStatusUnhandled ==
    (/\ decoder.source = "5:104"
     /\ IntError(decoder.payload) = "none"
     /\ IntOf(decoder.payload) \notin {7, 13}) =>
        /\ ~decoder.ok
        /\ decoder.events = <<>>
        /\ decoder.task_status_code = decoder.before

\* the code 99 arrives while the task status 7 is stored
C35_Witness ==
    /\ decoder.source = "5:104"
    /\ decoder.payload = PyInt(99)
    /\ decoder.before = Some(7)
    /\ decoder.task_status_code = Some(7)
    /\ ~decoder.ok
    /\ decoder.events = <<>>

----------------------------------------------------------------------------
(* Claims about the entry points, checked under SpecEntryPoints *)

\* the value handed in last is one its entry point cannot decode
Undecodable ==
    CASE decoder.source = "2:51" ->
            \/ decoder.payload.form \in {"other", "bad_literal"}
            \/ \A which \in {"dnd", "time_sync", "list", "value", "type"} :
                  ~Shape(LastDict, which)
      [] decoder.source = "5:104" ->
            \/ IntError(decoder.payload) # "none"
            \/ IntOf(decoder.payload) \notin {7, 13}
      [] decoder.source = "4:1" -> MalformedArguments # {}
      [] OTHER -> FALSE

----------------------------------------------------------------------------
(* Claims about the device code, checked under SpecDeviceCode *)

\* C32: an integer device code absent from the active registry decodes
\* successfully, without raising, to a placeholder name and a placeholder
\* description that contain the code, with a severity that is neither error
\* nor warning.
C32_UnknownCodePlaceholder ==
    (/\ decoder.source = "2:2"
     /\ IsInstanceInt(decoder.payload)
     /\ IntOf(decoder.payload) \notin DOMAIN DeviceCodeRegistry(decoder.before.registry)) =>
        /\ decoder.ok
        /\ decoder.raised = "none"
        /\ decoder.device_code.device_code = Some(IntOf(decoder.payload))
        /\ decoder.device_code.device_code_name
              = Some("Unknown Code " \o ToString(IntOf(decoder.payload)))
        /\ decoder.device_code.device_code_description
              = Some("Unknown device code: " \o ToString(IntOf(decoder.payload)))
        /\ decoder.device_code.device_code_is_error = Some(FALSE)
        /\ decoder.device_code.device_code_is_warning = Some(FALSE)

\* the code 73, which only the A1 registry holds, decoded with the MOVA
\* registry after an error code
C32_Witness ==
    /\ decoder.source = "2:2"
    /\ decoder.payload = PyInt(73)
    /\ decoder.before.registry = "MOVA"
    /\ decoder.before.device_code_is_error = Some(TRUE)
    /\ decoder.ok
    /\ decoder.device_code.device_code_name = Some("Unknown Code 73")
    /\ decoder.device_code.device_code_is_error = Some(FALSE)

\* the five values a decode stores
DecodedDeviceCode(h) ==
    <<h.device_code, h.device_code_name, h.device_code_description,
      h.device_code_is_error, h.device_code_is_warning>>

\* C33: swapping the model changes only the active registry: the decoded
\* device code, its name, its description and its severity flags stay as
\* they were until the next decode, and that decode resolves through the
\* registry of the new model.
C33_SetModelSwapsRegistryOnly ==
    /\ decoder.source = "set_model" =>
          /\ DecodedDeviceCode(decoder.device_code) = DecodedDeviceCode(decoder.before)
          /\ decoder.device_code.model = decoder.payload
          /\ decoder.device_code.registry = GetDeviceCodeRegistry(decoder.payload)
    /\ (decoder.source = "2:2" /\ decoder.ok) =>
          /\ decoder.device_code.registry = GetDeviceCodeRegistry(decoder.device_code.model)
          /\ LET codes == DeviceCodeRegistry(GetDeviceCodeRegistry(decoder.device_code.model))
                 code == decoder.device_code.device_code[1]
             IN  code \in DOMAIN codes =>
                    /\ decoder.device_code.device_code_name = Some(codes[code].name)
                    /\ decoder.device_code.device_code_description
                          = Some(codes[code].description)

\* the code 0 was decoded as NO_DEVICE_CODE, then the model becomes a MOVA
\* one, whose registry names the code 0 ROBOT_LIFTED
C33_Witness ==
    /\ decoder.source = "set_model"
    /\ decoder.payload = Some("mova.mower.g2405b")
    /\ decoder.before.registry = "BASE"
    /\ decoder.device_code.registry = "MOVA"
    /\ decoder.device_code.device_code = Some(0)
    /\ decoder.device_code.device_code_name = Some("NO_DEVICE_CODE")
    /\ decoder.device_code.device_code_is_error = Some(FALSE)

----------------------------------------------------------------------------
(* Claims about the MQTT channel, checked under SpecChannel *)

\* C1: whenever the channel has a client that is not connected, a retry is
\* under way: a CONNECT is in flight, or a connection attempt is marked as
\* running, or the reconnect timer is pending -- the channel never stops
\* retrying.
C1_AlwaysRetrying ==
    (mqtt.client /\ ~mqtt.connected)
        => (transport.inflight \/ mqtt.connecting \/ mqtt.timer)

\* C2: a step invokes the disconnected-callback only if it takes the channel
\* from connected to not connected, and a disconnect signal handled while the
\* channel is already not connected invokes no callback at all.
C2_DisconnectedOnlyFromConnected ==
    [][ /\ (\E c \in chan_log'.invoked : c[1] = "disconnected")
            => (mqtt.connected /\ ~mqtt'.connected)
        /\ (last_op' = "on_disconnect" /\ ~mqtt.connected)
            => chan_log'.invoked = {} ]_vars

\* a disconnect signal has just invoked the disconnected-callback
C2_Witness ==
    /\ last_op = "on_disconnect"
    /\ \E c \in chan_log.invoked : c[1] = "disconnected"

\* C3: disconnect() of a channel with a client and a pending reconnect timer
\* stops the worker, cancels the timer, tears the transport down and clears
\* the callbacks, in that order, and leaves no timer pending.
C3_TeardownOrderNoTimer ==
    [][(last_op' = "device_disconnect" /\ mqtt.client /\ mqtt.timer)
        => /\ chan_log'.steps = <<"worker", "timer", "transport", "callbacks">>
           /\ ~mqtt'.timer ]_vars

\* C4: once disconnect() has returned, no callback registered before it is
\* invoked by any later signal or timer firing, and as long as no client has
\* been created by a later connect() no handler makes a connection attempt.
\* (The reconnect timer itself survives disconnect(), see C3: what holds is
\* that its task, like the late signals, finds nothing to act on.)
C4_NoLateCallbackNoReconnect ==
    /\ \A c \in chan_log.invoked : c[2] > chan_log.dead_gen
    /\ ~mqtt.client => chan_log.attempt = "none"

\* a signal or the timer task has run on a channel that was connected with
\* callbacks and then disconnected
C4_Witness ==
    /\ last_op \in {"timer_task", "on_disconnect", "on_connect", "on_message"}
    /\ chan_log.dead_gen >= 1
    /\ ~mqtt.client

\* C16 (as claimed): every disconnect signal makes the handler attempt one
\* immediate reconnect and, whatever the outcome, leave exactly one reconnect
\* timer of 10 time units armed if the channel is not connected afterwards.
C16_DisconnectAlwaysReconnectsAndRearms ==
    [][last_op' = "on_disconnect"
        => /\ chan_log'.attempt = "reconnect"
           /\ ~mqtt'.connected
                => (mqtt'.timer /\ mqtt'.timers = <<RECONNECT_DELAY_SECONDS>>)]_vars

\* C16 (amended): a disconnect signal with a non-zero reason on a channel
\* that has a transport object leaves the channel not connected with exactly
\* one reconnect timer of 10 time units armed, whether or not the immediate
\* reconnect raised, and the immediate reconnect is attempted exactly when no
\* connection attempt was already marked as running.  A signal with reason 0,
\* or one on a channel without transport object, makes no attempt and leaves
\* the timers as they were.
C16_UnexpectedDisconnectRearms ==
    [][last_op' = "on_disconnect"
        => IF chan_log'.rc # 0 /\ mqtt.client
           THEN /\ chan_log'.attempt = "reconnect" <=> ~mqtt.connecting
                /\ ~mqtt'.connected
                /\ mqtt'.timer
                /\ mqtt'.timers = <<RECONNECT_DELAY_SECONDS>>
           ELSE /\ chan_log'.attempt = "none"
                /\ mqtt'.timers = mqtt.timers]_vars

\* a disconnect signal was answered by an immediate reconnect that did not
\* raise, and the timer is armed all the same
C16_Witness ==
    /\ last_op = "on_disconnect"
    /\ chan_log.rc # 0
    /\ chan_log.attempt = "reconnect"
    /\ transport.inflight
    /\ mqtt.timers = <<RECONNECT_DELAY_SECONDS>>

\* C17 (as claimed): a broker rejection or a disconnect signal with the
\* not-authorised reason, on a channel whose credentials already equal the
\* session token, makes the handler log the session in again and refresh the
\* credentials from the outcome, before any further reconnect attempt.
C17_ReauthOnCredentialReason ==
    [][(/\ last_op' \in {"on_connect", "on_disconnect"}
        /\ chan_log'.rc = 5
        /\ mqtt.client
        /\ ~CredentialsChanged(mqtt, cloud_base))
        => /\ chan_log'.relogin
           /\ mqtt'.client_key = cloud_base'.key]_vars

\* C18 (as claimed): a broker acknowledgement makes the channel connected,
\* cancels the pending reconnect timer, subscribes the device topic and
\* invokes the connected-callback, all in the one handler run.
C18_AckConnectsSubscribesCallsBack ==
    [][(last_op' = "on_connect" /\ chan_log'.rc = 0)
        => /\ mqtt'.connected
           /\ ~mqtt'.timer /\ mqtt'.timers = <<>>
           /\ chan_log'.subscribed
           /\ \E c \in chan_log'.invoked : c[1] = "connected"]_vars

\* C18 (amended): a broker acknowledgement makes the channel connected and
\* not connecting, cancels the pending reconnect timer, subscribes the device
\* topic and invokes the connected-callback that is registered at that moment
\* -- none after disconnect() has cleared the callbacks -- all in the one
\* handler run.
C18_AckConnectsSubscribesCallsRegistered ==
    [][(last_op' = "on_connect" /\ chan_log'.rc = 0)
        => /\ mqtt'.connected /\ ~mqtt'.connecting
           /\ ~mqtt'.timer /\ mqtt'.timers = <<>>
           /\ chan_log'.subscribed
           /\ chan_log'.invoked =
                IF mqtt.callbacks # 0 THEN {<<"connected", mqtt.callbacks>>} ELSE {}]_vars

\* an acknowledgement was handled on a channel with registered callbacks
C18_Witness ==
    /\ last_op = "on_connect"
    /\ chan_log.rc = 0
    /\ mqtt.connected
    /\ chan_log.subscribed
    /\ chan_log.invoked = {<<"connected", mqtt.callbacks>>}
    /\ mqtt.timers = <<>>

----------------------------------------------------------------------------
(* Claims about the threads of the channel, checked under SpecInterleave *)

\* C20 (as claimed): the handlers of one device never run interleaved: while
\* the reconnect timer task is between its checks and its reconnect, the
\* client and connected values it read are still the values of the channel.
C20_NoStaleConnectionState ==
    handler.at = "reconnect"
        => (mqtt.client = handler.client /\ mqtt.connected = handler.connected)

----------------------------------------------------------------------------
(* Claims about connect(), checked under SpecConnect *)

\* C24: connect() given None for any of its three callbacks raises
\* ValueError instead of returning, and has by then changed nothing of the
\* channel, of the session or of the transport and has made no cloud call.
C24_NilCallbackRaisesFirst ==
    [][(last_op' = "device_connect" /\ chan_log'.nil_callback)
        => /\ chan_log'.result = "ValueError"
           /\ mqtt' = mqtt
           /\ cloud_base' = cloud_base
           /\ transport' = transport
           /\ ~chan_log'.relogin /\ ~chan_log'.info
           /\ chan_log'.attempt = "none"
           /\ chan_log'.gens = chan_log.gens]_vars

\* connect() was called without one of its callbacks on a channel that had
\* been connected before
C24_Witness ==
    /\ last_op = "device_connect"
    /\ chan_log.nil_callback
    /\ chan_log.result = "ValueError"
    /\ mqtt.client

\* C25: connect() with its three callbacks on a channel whose session and
\* transport are both connected returns success having only replaced the
\* callbacks: no new transport, no reconnect, no login, no device-info
\* request, and the connection state as it was.
C25_ConnectedConnectOnlySwapsCallbacks ==
    [][(/\ last_op' = "device_connect"
        /\ ~chan_log'.nil_callback
        /\ Connected(cloud_base) /\ mqtt.connected)
        => /\ chan_log'.result = "true"
           /\ chan_log'.gens = chan_log.gens + 1
           /\ mqtt' = [mqtt EXCEPT !.callbacks = chan_log'.gens]
           /\ cloud_base' = cloud_base
           /\ transport' = transport
           /\ chan_log'.attempt = "none"
           /\ ~chan_log'.relogin /\ ~chan_log'.info]_vars

\* connect() was called again on a connected channel and replaced the
\* callbacks registered by the first call
C25_Witness ==
    /\ last_op = "device_connect"
    /\ chan_log.result = "true"
    /\ mqtt.connected /\ Connected(cloud_base)
    /\ chan_log.gens = 2
    /\ mqtt.callbacks = 2
    /\ ~chan_log.info

----------------------------------------------------------------------------
(* Claims about inbound messages, checked under SpecMessage *)

\* C22 (as claimed): an inbound message that is not JSON invokes no callback;
\* a JSON message with a data member has that member forwarded to the message
\* callback exactly once; and no exception leaves the handler.
C22_MessageForwardedOnce ==
    [][last_op' = "on_message"
        => /\ ~chan_log'.escaped
           /\ chan_log'.kind \in {"malformed", "not_utf8"} => chan_log'.invoked = {}
           /\ chan_log'.kind \in {"data", "empty_data"}
                => chan_log'.invoked = {<<"message", mqtt.callbacks>>}]_vars

\* C22 (amended): no exception leaves the handler, whether it comes from
\* decoding, from parsing or from the callback; the data member is forwarded,
\* once, exactly when the message is a JSON object whose data member is
\* non-empty and a message callback is registered; every other message
\* invokes nothing.
C22_NonEmptyDataForwardedOnce ==
    [][last_op' = "on_message"
        => /\ ~chan_log'.escaped
           /\ chan_log'.invoked =
                IF chan_log'.kind = "data" /\ mqtt.callbacks # 0
                THEN {<<"message", mqtt.callbacks>>} ELSE {}]_vars

\* a message with a non-empty data member was forwarded to the callback
C22_Witness ==
    /\ last_op = "on_message"
    /\ chan_log.kind = "data"
    /\ chan_log.invoked = {<<"message", mqtt.callbacks>>}
    /\ ~chan_log.escaped

\* C23 (as claimed): an inbound message that fails to parse leaves the
\* reachable flag of the device as it was.
C23_ReachableOnlyWhenParsed ==
    [][(last_op' = "on_message" /\ chan_log'.kind \in {"malformed", "not_utf8"})
        => mqtt'.device_reachable = mqtt.device_reachable]_vars

----------------------------------------------------------------------------
(* Claims about the session shared between threads, checked under SpecSwap *)

\* C21 (as claimed): whatever thread reads the session, the token and the
\* expiry it reads are a pair that one login stored together (or the pair of
\* the fresh session): never a new token with the old expiry or the reverse.
C21_TokenExpiryPairAtomic ==
    auth.seen \in auth.stored

----------------------------------------------------------------------------
(* Claims about the cloud session, checked under SpecSession *)

\* C5 (as claimed): starting from a connected session, 5 consecutive failed
\* calls (each returned None, no login in between) make `connected` false.
C5_FiveFailuresDisconnect ==
    consec_fails >= MaxFailCount => ~Connected(cloud_base)

\* the call just made received a 401 while a refresh token was stored
Got401WithRefresh ==
    last_op = "request" /\ call_log.status = 401 /\ call_log.refresh_present

\* C6 (as claimed): a call that receives HTTP 401 while a refresh token is
\* present makes exactly one re-authentication attempt and returns None.
C6_One401ReauthReturnsNone ==
    Got401WithRefresh =>
        /\ call_log.reauth_expiry + call_log.reauth_401 = 1
        /\ call_log.outcome = "none"

\* C6 (amended): a call that receives HTTP 401 while a refresh token is
\* present re-authenticates exactly once on account of the 401 (re-logins
\* for an expired key before the exchange come on top); it returns None
\* unless raise_on_error is set, and then it raises the HTTP-status error.
C6_One401ReauthNoneOrRaise ==
    Got401WithRefresh =>
        /\ call_log.reauth_401 = 1
        /\ call_log.outcome = (IF call_log.raise_on_error THEN "raised" ELSE "none")

C6_Witness ==
    /\ Got401WithRefresh
    /\ call_log.reauth_401 = 1
    /\ call_log.reauth_expiry = 0
    /\ call_log.outcome = "none"

\* C7 (as claimed): one connect() call issues at most two login requests,
\* however the server answers the retry.
C7_AtMostTwoLoginRequests ==
    last_op = "connect" => call_log.logins <= 2

\* C8: after a login response carrying a token and a TTL, `connected` is
\* true when the handler returns; and a call made while the clock has not
\* passed the stored expiry and answered with HTTP 200 triggers no
\* re-authentication and returns the parsed body (a 200 whose body is not
\* JSON makes json.loads raise instead).
C8_NoReauthBeforeExpiry ==
    [][ /\ (last_op' \in {"connect", "request"} /\ call_log'.login_kind = "ok")
            => Connected(cloud_base')
        /\ ( /\ last_op' = "request"
             /\ cloud_base.key_expire # 0
             /\ now <= cloud_base.key_expire
             /\ call_log'.status = 200 )
            => /\ call_log'.reauth_expiry = 0
               /\ call_log'.reauth_401 = 0
               /\ cloud_base'.key = cloud_base.key
               /\ cloud_base'.key_expire = cloud_base.key_expire
               /\ (call_log'.json => call_log'.outcome = "value")
      ]_vars

\* a call made exactly at the stored expiry returned its result, no re-login
C8_Witness ==
    /\ last_op = "request"
    /\ call_log.status = 200
    /\ call_log.outcome = "value"
    /\ call_log.login_kind = "none"
    /\ cloud_base.key_expire = now
    /\ Connected(cloud_base)

----------------------------------------------------------------------------
(* Claims about the outbound commands, checked under SpecCommand *)

C14_RequestIdsIncrease ==
    \A i \in 1..Len(cmd.issued) : \A j \in 1..Len(cmd.issued) :
        i < j => cmd.issued[i] < cmd.issued[j]

\* C15 (as claimed): a remote error or timeout-class error raised by send()
\* reaches the caller of the command as that exception, whichever entry
\* point the command came through.
C15_ErrorsReachCaller ==
    (last_op = "send_end" /\ cmd.log.class \in {"remote_error", "timeout_error"})
        => cmd.log.reaches = cmd.log.class

----------------------------------------------------------------------------
(* Claims about the retry loop of request(), checked under SpecRetry *)

\* C11: a call makes at least one and at most retry_count + 1 HTTP attempts;
\* it stops at the first attempt that yields a response (after `excs`
\* raising attempts that is attempt excs + 1), uses all its attempts if every
\* one raises, and with a missing, zero or negative retry_count makes
\* exactly one attempt.
C11_AtMostRetriesPlusOne ==
    last_op = "request_retries" =>
        LET extra == IF call_log.retry_count > 0 THEN call_log.retry_count ELSE 0
        IN  /\ call_log.attempts >= 1
            /\ call_log.attempts <= extra + 1
            /\ call_log.status # 0 => call_log.attempts = call_log.excs + 1
            /\ call_log.status = 0 => call_log.attempts = extra + 1
            /\ call_log.retry_count <= 0 => call_log.attempts = 1

\* two attempts raised and the third, the last one allowed, got a response
C11_Witness ==
    /\ last_op = "request_retries"
    /\ call_log.retry_count = 2
    /\ call_log.excs = 2
    /\ call_log.attempts = 3
    /\ call_log.status = 200

----------------------------------------------------------------------------
(* Claims about the async worker, checked under SpecWorker *)

\* C9 (as claimed): the calls submitted through _api_call_async are executed
\* by a single worker thread (at most one is ever started), one at a time and
\* in submission order: the k-th callback invocation is that of the k-th
\* submitted call and carries the result of the call made for its own url;
\* and each supplied callback is invoked exactly once: when nothing is queued
\* and nothing is being executed, every submitted call has had its callback
\* invoked.
C9_EachCallbackExactlyOnce ==
    /\ worker_log.starts <= 1
    /\ Len(worker_log.delivered) <= worker_log.submitted
    /\ \A k \in 1..Len(worker_log.delivered) :
          /\ worker_log.delivered[k][1] = k
          /\ worker_log.delivered[k][2] = k
    /\ (thread = "busy") = (current # <<>>)
    /\ (queue = <<>> /\ current = <<>>)
          => Len(worker_log.delivered) = worker_log.submitted

\* C10 (as claimed): the worker stops only when it dequeues the poison item;
\* it keeps processing after any call or callback outcome.
C10_StopsOnlyOnPoison ==
    thread = "exited" => worker_log.exit_cause = "poison"

----------------------------------------------------------------------------
(* Claims about the async worker, checked under SpecWorkerLive *)

\* the callback of the k-th submitted call has been invoked
CallbackInvoked(k) ==
    \E i \in DOMAIN worker_log.delivered : worker_log.delivered[i][1] = k

\* C37 (as claimed): every call accepted by _api_call_async eventually has
\* its callback invoked, the calls submitted after the session was
\* disconnected and connected again included.
C37_EveryAcceptedCallAnswered ==
    \A k \in 1..MaxSubmits : (worker_log.submitted >= k) ~> CallbackInvoked(k)

----------------------------------------------------------------------------
(* Claims about the flags and the timer of the channel, checked under *)
(* SpecFlagRace and SpecInterleave                                     *)

\* C38 (as claimed): in every reachable state the channel is in at most one
\* of Connected and Connecting: the connected flag and the connecting flag
\* are never both set, under any sequence or interleaving of the
\* broker-connect handler, the disconnect handler, the timer handler and
\* connect().
C38_ConnectedExcludesConnecting ==
    ~(mqtt.connected /\ mqtt.connecting)

\* C39 (as claimed): at most one reconnect timer is pending per device at
\* any time, across any sequence or interleaving of disconnect signals,
\* timer firings and connect() calls.
C39_AtMostOneTimerPending ==
    Len(mqtt.timers) <= 1

----------------------------------------------------------------------------
(* Claims about the reachable flag, checked under SpecReachable *)

\* the step is a command answered with the vendor code 80001
AnsweredUnreachable ==
    /\ last_op' = "send_end"
    /\ cmd'.log.response = "object"
    /\ cmd'.log.code = DeviceOfflineCode

\* the step is a command that failed on the connection or with another
\* vendor code
FailedOtherwise ==
    /\ last_op' = "send_end"
    /\ cmd'.log.class \in {"connection_error", "remote_error"}

\* C40: the device-reachable flag is false only if the most recent of the
\* events that bear on it -- commands answered and inbound messages -- was a
\* command answered with the vendor code 80001: the flag is true as long as
\* no command was sent and no message came in, a step
\* after which it is false is such an answer or found it false and is neither
\* an inbound message nor a command answered with success; and a command
\* that fails on the connection or with another vendor code never changes
\* the flag.
C40_UnreachableOnlyAfter80001 ==
    [][/\ ~mqtt'.device_reachable =>
             \/ AnsweredUnreachable
             \/ /\ ~mqtt.device_reachable
                /\ last_op' # "on_message"
                /\ ~(last_op' = "send_end" /\ cmd'.log.class \in {"result", "nothing"})
       /\ FailedOtherwise => mqtt'.device_reachable = mqtt.device_reachable
       /\ cmd.issued = <<>> => mqtt.device_reachable]_vars

\* after a command answered with 80001 made the device unreachable, another
\* command met a different vendor error and the flag is still false
C40_Witness ==
    /\ last_op = "send_end"
    /\ cmd.log.class = "remote_error"
    /\ cmd.log.code # DeviceOfflineCode
    /\ ~mqtt.device_reachable

====
